---- MODULE Spec2Model ----
(***************************************************************************)
(* Model of the message-copy pipeline of telegram-copier: the copy loop of *)
(* MessageHandler.copy_messages (message_handler.py), the personal-copy    *)
(* loop inlined in text_handler (main.py), the /stop command, the reset of *)
(* the cancellation flag by text_handler, and the quota counter of the     *)
(* user store (user_manager.py, database.py).                              *)
(*                                                                         *)
(* One user is modelled.  A copy run is a coroutine; it is cut into one    *)
(* action per network call it awaits (client lookup, message fetch,        *)
(* download, upload, status edit), and the answer of each call is drawn    *)
(* from the outcomes the client library can give.  The other handlers of   *)
(* the same user (/stop, any other text message) interleave between them.  *)
(* The test at the head of a loop iteration is an action of its own: the   *)
(* handlers that interleave only write the flag that this test reads, so   *)
(* an event placed between the end of a transfer and the test has the      *)
(* effect of the same event arriving while the transfer was awaited.       *)
(*                                                                         *)
(* Three further specifications share the module.  SpecClean applies       *)
(* clean_channel_input to every short channel reference, SpecLink applies  *)
(* the link patterns of personal copy and of source-channel setup to every *)
(* short link, and SpecResolve runs join_channel_by_invite and             *)
(* validate_channel_access with one action per client call.  Strings are   *)
(* sequences of characters; the copy loops stay at rest in these three.    *)
(*                                                                         *)
(* SpecSetup runs the source and target set-up of text_handler with one    *)
(* action per client call, SpecBar and SpecProgress apply the progress     *)
(* callbacks of a transfer (the bar, the speed window, the throttle of the *)
(* status edits), SpecShared runs two copy runs side by side over the one  *)
(* scratch directory and the per-user cancellation flag, SpecSession runs  *)
(* clear_user_session against get_user_client, and SpecLive is the copy    *)
(* loop of copy_messages over any range under a fair scheduler.  Each      *)
(* specification keeps the variables of the others at rest.                *)
(*                                                                         *)
(* SpecQuota runs the quota test and the count of copy runs against the    *)
(* one counter of the user store, SpecRange runs the range inputs (typed   *)
(* range, range of the whole channel, start and end links) up to the       *)
(* launch of a copy, SpecStart runs /start with the client lookup of the   *)
(* main menu, SpecAdmin runs the inputs of the admin panel and /reset, and *)
(* SpecSign runs the sign-in flow (phone, code, password, session string)  *)
(* with the session file next to the session map.                          *)
(***************************************************************************)
EXTENDS Integers, Sequences, FiniteSets, TLC

\* ---- bounds of the model ----
MaxId == 3                \* message IDs of a range are drawn from 1..MaxId
MaxLen == 5               \* longest channel reference given to clean_channel_input
MaxBody == 7              \* longest message link after https://t.me/
MaxRefLen == 3            \* longest channel reference given to the resolvers
MaxDialogs == 2           \* dialogs a scan of get_dialogs goes through
default_free_limit == 2   \* UserManager.default_free_limit (1000 when unconfigured)

\* float('inf'), the message_limit of an owner or VIP
Inf == -1

\* MAX_MEMORY_SIZE of the personal-copy loop, in bytes
MAX_MEMORY_SIZE == 100 * 1024 * 1024

\* file_size = None: no size was read, the message has no video, document,
\* photo or audio part (voice, sticker, animation) or is no media message
NoSize == -1

\* the sizes a media message is drawn with: none, the threshold, one byte more
MediaSizes == {NoSize, MAX_MEMORY_SIZE, MAX_MEMORY_SIZE + 1}

VARIABLES
    is_cancelled,   \* session['is_cancelled']
    message_count,  \* users.message_count, the persisted daily count
    is_owner,       \* users.is_owner
    is_vip,         \* users.is_vip
    loop,           \* "idle", "channel" (copy_messages) or "personal"
    pc,             \* the call the run is awaiting
    start_id,       \* start_msg_id / start_id
    end_id,         \* end_msg_id / end_id
    msg_id,         \* loop variable of the range
    total,          \* end - start + 1
    copied,         \* progress counter
    failed,         \* progress counter
    stats,          \* the stats dict the loop holds
    is_free_user,   \* copy_messages' is_free_user, computed once
    success,        \* first component of copy_messages' result
    outcome,        \* how the run ended
    broke,          \* the personal loop left by break (cancelled)
    fetched,        \* history: IDs for which get_messages was issued
    delivered,      \* history: messages that reached the destination
    count0,         \* history: message_count when the run started
    stop_in_run,    \* history: /stop was handled since the run started
    temp_files,     \* names of the files under temp_downloads
    temp_dir,       \* the directory temp_downloads exists
    file_size,      \* the local variable file_size of the running loop
    prompted,       \* history: the upgrade prompt was sent
    text,           \* the text a parsing function is applied to
    parsed,         \* what the function returned
    fn,             \* the resolver that was called
    rpc,            \* the client call the resolver is awaiting
    cleaned_channel,\* validate_channel_access' cleaned_channel / invite_hash
    input_type,     \* validate_channel_access' input_type
    chat,           \* the type of validate_channel_access' chat, or "None"
    scanned,        \* dialogs the running scan has gone through
    ret,            \* the triple the resolver returned
    calls,          \* history: join_channel_by_invite's client calls, each with
                    \* its outcome as a string of one or more characters
    state,          \* session['state']
    source_channel, \* session['source_channel']
    target_channel, \* session['target_channel']
    range_set,      \* session has start_msg_id and end_msg_id
    setup_pc,       \* the call a channel-setup handler is awaiting
    handler,        \* the setup handler that runs or ran last
    chat_obj,       \* handle_source_channel_input's chat_obj
    resolved,       \* history: a call of the handler returned the chat
    replied,        \* the reply the handler ended with
    before,         \* history: the two channels when the handler started
    unverified,     \* history: source_channel was set without any chat
    launched,       \* what start_copy handed to copy_messages
    current,        \* progress callback's current
    total_size,     \* progress_callback_dl's total_size
    download_size,  \* copy_messages' download_size
    bar,            \* the bar the callback rendered
    rendered,        \* the callback that rendered it
    transfer,       \* the transfer whose callbacks run, or the personal loop
    elapsed,        \* now - last_edit_time (download), now - upload_last (upload), in ticks
    since_edit,     \* history: ticks since the last status edit
    edit_gap,       \* history: ticks between the last two status edits
    download_speed_samples,\* progress_callback_dl's window
    upload_speed_samples,\* progress_callback_ul's window
    avg_speed,      \* avg_download_speed / avg_speed, as sum and count
    taken,           \* history: samples the transfer took, up to max_samples + 1
    runs,           \* the two copy tasks: user, kind, position, message, staged file
    files,          \* the files under temp_downloads, shared by all tasks
    dir_exists,     \* temp_downloads exists
    cancelled,      \* session['is_cancelled'] of each user
    second,          \* int(time.time())
    user_sessions,  \* SessionHandler.user_sessions, by user
    active_clients, \* SessionHandler.active_clients: the state of each user's client
    clear_pc,       \* where clear_user_session of each user stands
    client_pc,      \* where get_user_client of each user stands
    client_ret,      \* what get_user_client of each user returned last
    quota_runs,     \* the copy_messages tasks of one free user: position, message, end, stats held
    db_count,       \* users.message_count of that user in the database
    db_count0,      \* history: the count when the first task started
    transfers,       \* history: the sends that succeeded, over all tasks
    range_state,    \* session['state'] of the user who sets a range
    start_msg_id,   \* session['start_msg_id'], 0 for None
    end_msg_id,     \* session['end_msg_id'], 0 for None
    range_in,       \* the text the last text_handler got
    range_prev,     \* history: start, end and state when the last handler started
    range_reply,    \* how the last handler ended
    range_launch,    \* the start and end the last handler handed to copy_messages
    start_sessions, \* SessionHandler.user_sessions, by user, with the copy parameters
    start_clients,  \* SessionHandler.active_clients: the state of each user's client
    start_db,       \* the users table: the users that have a row, and their is_owner
    start_pc,        \* where the /start handler of each user stands
    admin_db,       \* the users table: is_vip, is_owner and message_count of each row
    admin_limit,    \* UserManager.default_free_limit
    admin_state,    \* session['state'] of each user that has a session
    admin_sent,     \* the users the last handler sent a broadcast or a notice to
    admin_last,      \* the sender of the last input and the reply it got
    sign_sessions,  \* SessionHandler.user_sessions with the keys of the sign-in flow
    sign_file,      \* the sessions that user_sessions.json holds
    sign_clients,   \* the users that have an entry in active_clients
    sign_last       \* the last input: user, reply, phone given to send_code,
                    \* and how the call to Telegram ended

copyvars == <<is_cancelled, message_count, is_owner, is_vip, loop, pc, start_id,
          end_id, msg_id, total, copied, failed, stats, is_free_user, success,
          outcome, broke, temp_files, temp_dir, file_size, fetched, delivered,
          count0, stop_in_run, prompted>>

\* the variables of the channel resolvers
resolvevars == <<fn, rpc, cleaned_channel, input_type, chat, scanned, ret,
                 calls>>

\* the variables of channel setup
setupvars == <<state, source_channel, target_channel, range_set, setup_pc,
               handler, chat_obj, resolved, replied, before, unverified,
               launched>>

\* the variables of the progress bar
barvars == <<current, total_size, download_size, bar, rendered>>

\* the variables of the throttle and of the speed windows
progvars == <<transfer, elapsed, since_edit, edit_gap, download_speed_samples,
              upload_speed_samples, avg_speed, taken>>

\* the variables of two copy tasks that run at the same time
sharedvars == <<runs, files, dir_exists, cancelled, second>>

\* the variables of the session store
sessvars == <<user_sessions, active_clients, clear_pc, client_pc, client_ret>>

\* the variables of the quota of one user under several copy tasks
quotavars == <<quota_runs, db_count, db_count0, transfers>>

\* the variables of the message range of a session
spanvars == <<range_state, start_msg_id, end_msg_id, range_in, range_prev,
              range_reply, range_launch>>

\* the variables of the /start command
startvars == <<start_sessions, start_clients, start_db, start_pc>>

\* the variables of the admin inputs
adminvars == <<admin_db, admin_limit, admin_state, admin_sent, admin_last>>

\* the variables of the sign-in flow
signvars == <<sign_sessions, sign_file, sign_clients, sign_last>>

\* the variables of the specifications of accounts, ranges and sign-in
morevars == <<quotavars, spanvars, startvars, adminvars, signvars>>

\* the variables of the specifications that follow the resolvers
latervars == <<setupvars, barvars, progvars, sharedvars, sessvars,
               morevars>>

\* the variables of the parsing functions and of the resolvers, which the
\* copy loops leave alone
othervars == <<text, parsed, resolvevars, latervars>>

vars == <<copyvars, othervars>>

dbvars == <<message_count, is_owner, is_vip>>
rangevars == <<start_id, end_id, total>>
histvars == <<count0, stop_in_run>>

\* ---- user store ----

NoStats == [is_owner |-> FALSE, is_vip |-> FALSE, message_count |-> 0,
            message_limit |-> 0]

\* UserManager.get_user_stats: a fresh dict read from the users table
get_user_stats ==
    [is_owner |-> is_owner, is_vip |-> is_vip,
     message_count |-> message_count,
     message_limit |-> IF is_owner \/ is_vip THEN Inf ELSE default_free_limit]

\* not (stats['is_owner'] or stats['is_vip'])
IsFree(st) == ~(st.is_owner \/ st.is_vip)

\* the limit test with > in place of >=
LimitReached_gt(st) ==
    st.message_limit # Inf /\ st.message_count > st.message_limit

\* stats['message_count'] >= stats['message_limit'], with float('inf')
LimitReached(st) ==
    st.message_limit # Inf /\ st.message_count >= st.message_limit

\* file_size >= MAX_MEMORY_SIZE in place of >
StageToFile_ge(sz) == sz >= MAX_MEMORY_SIZE

\* personal copy: `if file_size > MAX_MEMORY_SIZE`, the download goes to a
\* file under temp_downloads, else to memory
StageToFile(sz) == sz > MAX_MEMORY_SIZE

\* the scratch file of message m: copy_messages names it
\* temp_<m>_<media_type><ext>, personal copy temp_<m>_<time>
temp_file(l, m) == <<l, m>>

\* a loop that stays on the same ID
NextId_retry(m) == m

\* the for loop over range(start, end + 1): the ID after m, also after a
\* failure (continue)
NextId(m) == m + 1

\* no function has been applied
NotParsed == <<>>

\* no resolver has returned
NoRet == [success |-> FALSE, chat_id |-> "", reason |-> ""]

\* no resolver is running
ResolveIdle ==
    /\ fn = "none"
    /\ rpc = "idle"
    /\ cleaned_channel = <<>>
    /\ input_type = "none"
    /\ chat = "None"
    /\ scanned = 0
    /\ ret = NoRet
    /\ calls = <<>>

\* channel setup at rest: nothing is set
SetupIdle ==
    /\ state = "main_menu"
    /\ source_channel = "None"
    /\ target_channel = "None"
    /\ range_set = FALSE
    /\ setup_pc = "idle"
    /\ handler = "none"
    /\ chat_obj = "None"
    /\ resolved = FALSE
    /\ replied = "none"
    /\ before = <<"None", "None">>
    /\ unverified = FALSE
    /\ launched = "none"

\* no progress was reported
BarIdle ==
    /\ current = 0
    /\ total_size = 0
    /\ download_size = 0
    /\ bar = <<>>
    /\ rendered = "none"

\* no status edit was made yet
NoGap == -1

\* no transfer is running
ProgressIdle ==
    /\ transfer = "none"
    /\ elapsed = 0
    /\ since_edit = 0
    /\ edit_gap = NoGap
    /\ download_speed_samples = <<>>
    /\ upload_speed_samples = <<>>
    /\ avg_speed = <<0, 1>>
    /\ taken = 0

\* the tasks the event loop runs side by side, and the users
Runs == {1, 2}
Users == {"u1", "u2"}

\* no file is staged
NoFile == <<>>

\* a task slot with no run in it
NoRun == [user |-> "u1", kind |-> "none", pc |-> "idle", msg_id |-> 0,
          end_id |-> 0, file |-> NoFile]

\* no copy task runs
SharedIdle ==
    /\ runs = [r \in Runs |-> NoRun]
    /\ files = {}
    /\ dir_exists = FALSE
    /\ cancelled = [u \in Users |-> FALSE]
    /\ second = 0

\* no session and no client exists
SessionIdle ==
    /\ user_sessions = <<>>
    /\ active_clients = <<>>
    /\ clear_pc = [u \in Users |-> "idle"]
    /\ client_pc = [u \in Users |-> "idle"]
    /\ client_ret = [u \in Users |-> "none"]

\* a task slot of the quota specification at rest
NoQuotaRun == [pc |-> "idle", msg_id |-> 0, end_id |-> 0, count |-> 0]

\* no copy task of the quota specification runs
QuotaIdle ==
    /\ quota_runs = [r \in Runs |-> NoQuotaRun]
    /\ db_count = 0
    /\ db_count0 = 0
    /\ transfers = 0

\* no range is set and nothing was sent
SpanIdle ==
    /\ range_state = "main_menu"
    /\ start_msg_id = 0
    /\ end_msg_id = 0
    /\ range_in = <<>>
    /\ range_prev = <<0, 0, "main_menu">>
    /\ range_reply = "none"
    /\ range_launch = <<>>

\* no session, no client and no row exists
StartIdle ==
    /\ start_sessions = <<>>
    /\ start_clients = <<>>
    /\ start_db = <<>>
    /\ start_pc = [u \in Users |-> "idle"]

\* no row and no session exists
AdminIdle ==
    /\ admin_db = <<>>
    /\ admin_limit = default_free_limit
    /\ admin_state = <<>>
    /\ admin_sent = {}
    /\ admin_last = <<"none", "none">>

\* no session is kept and none is on disk
SignIdle ==
    /\ sign_sessions = <<>>
    /\ sign_file = <<>>
    /\ sign_clients = {}
    /\ sign_last = <<"none", "none", <<>>, "none">>

MoreIdle == QuotaIdle /\ SpanIdle /\ StartIdle /\ AdminIdle /\ SignIdle

LaterIdle ==
    /\ SetupIdle /\ BarIdle /\ ProgressIdle /\ SharedIdle /\ SessionIdle
    /\ MoreIdle

\* ---- initial state ----

Init ==
    /\ is_cancelled = FALSE
    /\ is_owner \in BOOLEAN
    /\ is_vip \in BOOLEAN
    /\ message_count \in IF is_owner \/ is_vip THEN {default_free_limit}
                         ELSE 0..default_free_limit
    /\ loop = "idle"
    /\ pc = "idle"
    /\ start_id = 0
    /\ end_id = 0
    /\ msg_id = 0
    /\ total = 0
    /\ copied = 0
    /\ failed = 0
    /\ stats = NoStats
    /\ is_free_user = FALSE
    /\ success = FALSE
    /\ outcome = "none"
    /\ broke = FALSE
    /\ temp_files = {}
    /\ temp_dir = FALSE
    /\ file_size = NoSize
    /\ fetched = <<>>
    /\ delivered = 0
    /\ count0 = 0
    /\ stop_in_run = FALSE
    /\ prompted = FALSE
    /\ text = <<>>
    /\ parsed = NotParsed
    /\ ResolveIdle
    /\ LaterIdle

\* ---- handlers of the user's other events ----

\* stop_command: sets the cancellation flag
stop_command ==
    /\ is_cancelled' = TRUE
    /\ stop_in_run' = (stop_in_run \/ (loop # "idle" /\ pc # "done"))
    /\ UNCHANGED <<temp_files, dbvars, loop, pc, rangevars, msg_id, copied, failed, stats,
                   is_free_user, success, outcome, broke, fetched, delivered,
                   count0, prompted>>
    /\ UNCHANGED <<temp_dir, file_size>>
    /\ UNCHANGED othervars

\* text_handler on a text message that is not a personal-copy link: the
\* flag is reset before the state is looked at
text_handler_other ==
    /\ is_cancelled' = FALSE
    /\ UNCHANGED <<temp_files, dbvars, loop, pc, rangevars, msg_id, copied, failed, stats,
                   is_free_user, success, outcome, broke, fetched, delivered,
                   histvars, prompted>>
    /\ UNCHANGED <<temp_dir, file_size>>
    /\ UNCHANGED othervars

\* the handler that ran the copy has replied and shown the menu
ReturnToMenu ==
    /\ pc = "done"
    /\ loop' = "idle"
    /\ pc' = "idle"
    /\ start_id' = 0
    /\ end_id' = 0
    /\ msg_id' = 0
    /\ total' = 0
    /\ copied' = 0
    /\ failed' = 0
    /\ stats' = NoStats
    /\ is_free_user' = FALSE
    /\ success' = FALSE
    /\ outcome' = "none"
    /\ broke' = FALSE
    /\ fetched' = <<>>
    /\ delivered' = 0
    /\ count0' = 0
    /\ stop_in_run' = FALSE
    /\ prompted' = FALSE
    /\ UNCHANGED <<temp_files, is_cancelled, dbvars>>
    /\ file_size' = NoSize
    /\ UNCHANGED temp_dir
    /\ UNCHANGED othervars

\* ---- copy_messages, started by the start_copy button ----

\* a run ends: the counters and the range stay as they are
Finish(ok, how) ==
    /\ pc' = "done"
    /\ success' = ok
    /\ outcome' = how

\* callback_handler, data = "start_copy": the range is read from the session
\* and copy_messages is called; it awaits get_user_client
start_copy(s, e) ==
    /\ pc = "idle"
    /\ loop' = "channel"
    /\ pc' = "client"
    /\ start_id' = s
    /\ end_id' = e
    /\ count0' = message_count
    /\ stop_in_run' = FALSE
    /\ UNCHANGED <<temp_files, is_cancelled, dbvars, msg_id, total, copied, failed, stats,
                   is_free_user, success, outcome, broke, fetched, delivered,
                   prompted>>
    /\ UNCHANGED <<temp_dir, file_size>>
    /\ UNCHANGED othervars

\* temp_downloads created before the client is looked up
SetupDir_first(found) == TRUE

\* temp_downloads after the set-up of copy_messages: os.makedirs is reached
\* only with a client
SetupDir(found) == temp_dir \/ found

\* copy_messages up to the loop: no client ends the run, else the counters
\* are set and the stats are read once
CM_client(found) ==
    /\ loop = "channel"
    /\ pc = "client"
    /\ IF ~found
       THEN /\ Finish(FALSE, "noclient")
            /\ UNCHANGED <<msg_id, total, copied, failed, stats, is_free_user>>
       ELSE /\ copied' = 0
            /\ failed' = 0
            /\ total' = end_id - start_id + 1
            /\ stats' = get_user_stats
            /\ is_free_user' = IsFree(get_user_stats)
            /\ msg_id' = start_id
            /\ pc' = "top"
            /\ UNCHANGED <<success, outcome>>
    /\ UNCHANGED <<temp_files, is_cancelled, dbvars, loop, start_id, end_id, broke, fetched,
                   delivered, histvars, prompted>>
    /\ temp_dir' = SetupDir(found)
    /\ UNCHANGED file_size
    /\ UNCHANGED othervars

\* head of an iteration: range exhausted, cancellation flag (temp_downloads
\* is swept), quota of the held stats, else get_messages is issued for msg_id
CM_top ==
    /\ loop = "channel"
    /\ pc = "top"
    /\ IF msg_id > end_id
       THEN /\ pc' = "final"
            /\ UNCHANGED <<success, outcome, fetched, prompted, temp_files>>
       ELSE IF is_cancelled
       THEN /\ Finish(TRUE, "cancelled")
            /\ temp_files' = {}
            /\ UNCHANGED <<fetched, prompted>>
       ELSE IF is_free_user /\ LimitReached(stats)
       THEN /\ pc' = "quota_edit"
            /\ prompted' = TRUE
            /\ UNCHANGED <<success, outcome, fetched, temp_files>>
       ELSE /\ pc' = "fetch"
            /\ fetched' = Append(fetched, msg_id)
            /\ UNCHANGED <<success, outcome, prompted, temp_files>>
    /\ UNCHANGED <<is_cancelled, dbvars, loop, rangevars, msg_id, copied, failed,
                   stats, is_free_user, broke, delivered, histvars>>
    /\ UNCHANGED <<temp_dir, file_size>>
    /\ UNCHANGED othervars

\* the edit of the status message with the upgrade prompt returns or raises
CM_quota_edit(edited) ==
    /\ loop = "channel"
    /\ pc = "quota_edit"
    /\ IF edited THEN Finish(TRUE, "quota") ELSE Finish(FALSE, "error")
    /\ UNCHANGED <<temp_files, is_cancelled, dbvars, loop, rangevars, msg_id, copied, failed,
                   stats, is_free_user, broke, fetched, delivered, histvars,
                   prompted>>
    /\ UNCHANGED <<temp_dir, file_size>>
    /\ UNCHANGED othervars

FetchResults == {"raise", "none", "empty", "media", "text", "other"}

\* only a media message has a size
SizesOf(res) == IF res = "media" THEN MediaSizes ELSE {NoSize}

\* get_messages returns: a missing or empty message and an exception are
\* failures; file_size is set to None and then to the size of the media
\* part, media goes to download, text to send_message; a message with
\* neither media nor text passes through the body uncounted
CM_fetch(res, size) ==
    /\ loop = "channel"
    /\ pc = "fetch"
    /\ CASE res \in {"raise", "none", "empty"} ->
              /\ failed' = failed + 1
              /\ msg_id' = NextId(msg_id)
              /\ pc' = "top"
              /\ UNCHANGED file_size
         [] res = "media" ->
              /\ file_size' = size
              /\ pc' = "download"
              /\ UNCHANGED <<failed, msg_id>>
         [] res = "text" ->
              /\ file_size' = NoSize
              /\ pc' = "send_text"
              /\ UNCHANGED <<failed, msg_id>>
         [] res = "other" ->
              /\ file_size' = NoSize
              /\ msg_id' = NextId(msg_id)
              /\ pc' = "top"
              /\ UNCHANGED failed
    /\ UNCHANGED <<temp_files, is_cancelled, dbvars, loop, rangevars, copied, stats,
                   is_free_user, success, outcome, broke, fetched, delivered,
                   histvars, prompted, temp_dir>>
    /\ UNCHANGED othervars

\* download_media returns the path of the staged file, returns nothing or
\* raises
CM_download(res) ==
    /\ loop = "channel"
    /\ pc = "download"
    /\ IF res = "file"
       THEN /\ pc' = "send_media"
            /\ temp_files' = temp_files \cup {temp_file("channel", msg_id)}
            /\ UNCHANGED <<failed, msg_id>>
       ELSE /\ failed' = failed + 1
            /\ msg_id' = NextId(msg_id)
            /\ pc' = "top"
            /\ UNCHANGED temp_files
    /\ UNCHANGED <<is_cancelled, dbvars, loop, rangevars, copied, stats,
                   is_free_user, success, outcome, broke, fetched, delivered,
                   histvars, prompted>>
    /\ UNCHANGED <<temp_dir, file_size>>
    /\ UNCHANGED othervars

\* after a send that succeeded: copied is counted, the stats are read again
\* and then, for a free user, the persisted count is incremented; a raise of
\* the store lands in the except clause of the iteration
Counted(stored) ==
    /\ copied' = copied + 1
    /\ delivered' = delivered + 1
    /\ stats' = get_user_stats
    /\ IF IsFree(get_user_stats)
       THEN IF stored
            THEN /\ message_count' = message_count + 1
                 /\ UNCHANGED failed
            ELSE /\ failed' = failed + 1
                 /\ UNCHANGED message_count
       ELSE UNCHANGED <<message_count, failed>>

\* the media send returns a message, returns nothing or raises
CM_send_media(res, stored) ==
    /\ loop = "channel"
    /\ pc = "send_media"
    /\ IF res = "sent"
       THEN Counted(stored)
       ELSE /\ failed' = failed + 1
            /\ UNCHANGED <<copied, delivered, stats, message_count>>
    /\ msg_id' = NextId(msg_id)
    /\ pc' = "top"
    /\ UNCHANGED <<temp_files, is_cancelled, is_owner, is_vip, loop, rangevars,
                   is_free_user, success, outcome, broke, fetched, histvars,
                   prompted>>
    /\ UNCHANGED <<temp_dir, file_size>>
    /\ UNCHANGED othervars

\* send_message of a text-only message returns or raises
CM_send_text(res, stored) ==
    /\ loop = "channel"
    /\ pc = "send_text"
    /\ IF res = "sent"
       THEN Counted(stored)
       ELSE /\ failed' = failed + 1
            /\ UNCHANGED <<copied, delivered, stats, message_count>>
    /\ msg_id' = NextId(msg_id)
    /\ pc' = "top"
    /\ UNCHANGED <<temp_files, is_cancelled, is_owner, is_vip, loop, rangevars,
                   is_free_user, success, outcome, broke, fetched, histvars,
                   prompted>>
    /\ UNCHANGED <<temp_dir, file_size>>
    /\ UNCHANGED othervars

\* after the loop: the final status edit returns or raises; the sweep of
\* temp_downloads follows the edit
CM_final(edited) ==
    /\ loop = "channel"
    /\ pc = "final"
    /\ IF edited
       THEN /\ Finish(TRUE, "completed")
            /\ temp_files' = {}
       ELSE /\ Finish(FALSE, "error")
            /\ UNCHANGED temp_files
    /\ UNCHANGED <<is_cancelled, dbvars, loop, rangevars, msg_id, copied, failed,
                   stats, is_free_user, broke, fetched, delivered, histvars,
                   prompted>>
    /\ UNCHANGED <<temp_dir, file_size>>
    /\ UNCHANGED othervars

\* ---- personal copy, the loop inlined in text_handler ----

\* the outer except clause of the personal-copy branch ends the handler
Abort ==
    /\ pc' = "done"
    /\ outcome' = "error"

\* text_handler in state awaiting_personal_copy_link: the flag is reset, a
\* free user at the limit gets the upgrade prompt and nothing else, otherwise
\* the link gives the range and get_user_client is awaited
text_handler_personal(s, e) ==
    /\ pc = "idle"
    /\ is_cancelled' = FALSE
    /\ loop' = "personal"
    /\ start_id' = s
    /\ end_id' = e
    /\ count0' = message_count
    /\ stop_in_run' = FALSE
    /\ IF IsFree(get_user_stats) /\ LimitReached(get_user_stats)
       THEN /\ prompted' = TRUE
            /\ pc' = "done"
            /\ outcome' = "quota"
       ELSE /\ pc' = "client"
            /\ UNCHANGED <<prompted, outcome>>
    /\ UNCHANGED <<dbvars, msg_id, total, copied, failed, stats, is_free_user,
                   success, broke, temp_files, fetched, delivered>>
    /\ UNCHANGED <<temp_dir, file_size>>
    /\ UNCHANGED othervars

\* get_user_client returns; then the dialogs are loaded and the status
\* message is sent, which may raise
PC_client(res) ==
    /\ loop = "personal"
    /\ pc = "client"
    /\ CASE res = "none" ->
              /\ pc' = "done"
              /\ outcome' = "noclient"
              /\ UNCHANGED <<msg_id, total, copied, failed>>
         [] res = "reply_raise" ->
              /\ Abort
              /\ UNCHANGED <<msg_id, total, copied, failed>>
         [] res = "client" ->
              /\ copied' = 0
              /\ failed' = 0
              /\ total' = end_id - start_id + 1
              /\ msg_id' = start_id
              /\ pc' = "top"
              /\ UNCHANGED outcome
    /\ UNCHANGED <<is_cancelled, dbvars, loop, start_id, end_id, stats,
                   is_free_user, success, broke, temp_files, fetched,
                   delivered, histvars, prompted>>
    /\ temp_dir' = (temp_dir \/ res = "client")
    /\ UNCHANGED file_size
    /\ UNCHANGED othervars

\* head of an iteration: range exhausted (temp_downloads is swept and the
\* final edit is awaited), cancellation flag (the status edit is awaited),
\* else get_messages is issued for msg_id
PC_top ==
    /\ loop = "personal"
    /\ pc = "top"
    /\ IF msg_id > end_id
       THEN /\ pc' = "final"
            /\ temp_files' = {}
            /\ temp_dir' = FALSE
            /\ UNCHANGED fetched
       ELSE IF is_cancelled
       THEN /\ pc' = "cancel_edit"
            /\ UNCHANGED <<fetched, temp_files, temp_dir>>
       ELSE /\ pc' = "fetch"
            /\ fetched' = Append(fetched, msg_id)
            /\ UNCHANGED <<temp_files, temp_dir>>
    /\ UNCHANGED <<is_cancelled, dbvars, loop, rangevars, msg_id, copied,
                   failed, stats, is_free_user, success, outcome, broke,
                   delivered, histvars, prompted>>
    /\ UNCHANGED file_size
    /\ UNCHANGED othervars

\* the edit announcing the cancellation returns (break, then the sweep and
\* the final edit) or raises
PC_cancel_edit(edited) ==
    /\ loop = "personal"
    /\ pc = "cancel_edit"
    /\ IF edited
       THEN /\ broke' = TRUE
            /\ temp_files' = {}
            /\ temp_dir' = FALSE
            /\ pc' = "final"
            /\ UNCHANGED outcome
       ELSE /\ Abort
            /\ UNCHANGED <<broke, temp_files, temp_dir>>
    /\ UNCHANGED <<is_cancelled, dbvars, loop, rangevars, msg_id, copied,
                   failed, stats, is_free_user, success, fetched, delivered,
                   histvars, prompted>>
    /\ UNCHANGED file_size
    /\ UNCHANGED othervars

\* a status edit inside the loop body: when it returns the loop goes on to
\* the next ID, when it raises the handler ends
StatusEdit(edited) ==
    IF edited
    THEN /\ msg_id' = NextId(msg_id)
         /\ pc' = "top"
         /\ UNCHANGED outcome
    ELSE /\ Abort
         /\ UNCHANGED msg_id

PersonalFetchResults ==
    {"peer_invalid", "raise", "none", "empty", "media", "text", "other"}

\* get_messages returns.  PeerIdInvalid and any other exception count a
\* failure before the status edit; a null message and an unsupported one
\* count it after the edit; an empty message has no date and the details
\* line raises outside every inner try; media is downloaded to a file when
\* larger than MAX_MEMORY_SIZE and in memory otherwise
PC_fetch(res, size, edited) ==
    /\ loop = "personal"
    /\ pc = "fetch"
    /\ CASE res \in {"peer_invalid", "raise"} ->
              /\ failed' = failed + 1
              /\ StatusEdit(edited)
              /\ UNCHANGED file_size
         [] res \in {"none", "other"} ->
              /\ failed' = IF edited THEN failed + 1 ELSE failed
              /\ StatusEdit(edited)
              /\ UNCHANGED file_size
         [] res = "empty" ->
              /\ Abort
              /\ UNCHANGED <<failed, msg_id, file_size>>
         [] res = "media" ->
              /\ file_size' = IF size = NoSize THEN 0 ELSE size
              /\ pc' = IF StageToFile(file_size') THEN "download_large"
                        ELSE "download_small"
              /\ UNCHANGED <<failed, msg_id, outcome>>
         [] res = "text" ->
              /\ pc' = "send_text"
              /\ UNCHANGED <<failed, msg_id, outcome, file_size>>
    /\ UNCHANGED <<is_cancelled, dbvars, loop, rangevars, copied, stats,
                   is_free_user, success, broke, temp_files, fetched,
                   delivered, histvars, prompted, temp_dir>>
    /\ UNCHANGED othervars

\* download_media to a file under temp_downloads: with a file the send
\* follows; with nothing the send is skipped and the message is counted as
\* copied; a raise counts a failure
PC_download_large(res, edited) ==
    /\ loop = "personal"
    /\ pc = "download_large"
    /\ CASE res = "file" ->
              /\ pc' = "send_large"
              /\ temp_files' = temp_files \cup {temp_file("personal", msg_id)}
              /\ UNCHANGED <<copied, failed, msg_id, outcome>>
         [] res = "nothing" ->
              /\ copied' = copied + 1
              /\ StatusEdit(edited)
              /\ UNCHANGED <<failed, temp_files>>
         [] res = "raise" ->
              /\ failed' = failed + 1
              /\ StatusEdit(edited)
              /\ UNCHANGED <<copied, temp_files>>
    /\ UNCHANGED <<is_cancelled, dbvars, loop, rangevars, stats, is_free_user,
                   success, broke, fetched, delivered, histvars, prompted>>
    /\ UNCHANGED <<temp_dir, file_size>>
    /\ UNCHANGED othervars

\* send_document of the staged file: the file is removed after the send and
\* after its failure; after the failure was counted the body still runs on
\* to copied += 1
PC_send_large(res, edited) ==
    /\ loop = "personal"
    /\ pc = "send_large"
    /\ temp_files' = temp_files \ {temp_file("personal", msg_id)}
    /\ copied' = copied + 1
    /\ IF res = "sent"
       THEN /\ delivered' = delivered + 1
            /\ UNCHANGED failed
       ELSE /\ failed' = failed + 1
            /\ UNCHANGED delivered
    /\ StatusEdit(edited)
    /\ UNCHANGED <<is_cancelled, dbvars, loop, rangevars, stats, is_free_user,
                   success, broke, fetched, histvars, prompted>>
    /\ UNCHANGED <<temp_dir, file_size>>
    /\ UNCHANGED othervars

\* download_media in memory: nothing is a failure and the next ID follows,
\* a raise is a failure followed by the status edit
PC_download_small(res, edited) ==
    /\ loop = "personal"
    /\ pc = "download_small"
    /\ CASE res = "file" ->
              /\ pc' = "send_small"
              /\ UNCHANGED <<failed, msg_id, outcome>>
         [] res = "nothing" ->
              /\ failed' = failed + 1
              /\ msg_id' = NextId(msg_id)
              /\ pc' = "top"
              /\ UNCHANGED outcome
         [] res = "raise" ->
              /\ failed' = failed + 1
              /\ StatusEdit(edited)
    /\ UNCHANGED <<is_cancelled, dbvars, loop, rangevars, copied, stats,
                   is_free_user, success, broke, temp_files, fetched,
                   delivered, histvars, prompted>>
    /\ UNCHANGED <<temp_dir, file_size>>
    /\ UNCHANGED othervars

\* send_document of the in-memory file returns or raises
PC_send_small(res, edited) ==
    /\ loop = "personal"
    /\ pc = "send_small"
    /\ IF res = "sent"
       THEN /\ delivered' = delivered + 1
            /\ copied' = copied + 1
            /\ UNCHANGED failed
       ELSE /\ failed' = failed + 1
            /\ UNCHANGED <<delivered, copied>>
    /\ StatusEdit(edited)
    /\ UNCHANGED <<is_cancelled, dbvars, loop, rangevars, stats, is_free_user,
                   success, broke, temp_files, fetched, histvars, prompted>>
    /\ UNCHANGED <<temp_dir, file_size>>
    /\ UNCHANGED othervars

\* send_message of a text-only message: a raise is caught only by the outer
\* except clause
PC_send_text(res, edited) ==
    /\ loop = "personal"
    /\ pc = "send_text"
    /\ IF res = "sent"
       THEN /\ delivered' = delivered + 1
            /\ copied' = copied + 1
            /\ StatusEdit(edited)
       ELSE /\ Abort
            /\ UNCHANGED <<delivered, copied, msg_id>>
    /\ UNCHANGED <<is_cancelled, dbvars, loop, rangevars, failed, stats,
                   is_free_user, success, broke, temp_files, fetched,
                   histvars, prompted>>
    /\ UNCHANGED <<temp_dir, file_size>>
    /\ UNCHANGED othervars

\* the final edit, then for a free user increment_message_count(copied):
\* stored of its copied single increments succeed before one raises
PC_final(edited, stored) ==
    /\ loop = "personal"
    /\ pc = "final"
    /\ stored \in 0..copied
    /\ IF ~edited
       THEN /\ Abort
            /\ UNCHANGED <<stats, message_count>>
       ELSE /\ stats' = get_user_stats
            /\ pc' = "done"
            /\ IF IsFree(get_user_stats)
               THEN /\ message_count' = message_count + stored
                    /\ outcome' = IF stored < copied THEN "error"
                                  ELSE IF broke THEN "cancelled"
                                  ELSE "completed"
               ELSE /\ UNCHANGED message_count
                    /\ outcome' = IF broke THEN "cancelled" ELSE "completed"
    /\ UNCHANGED <<is_cancelled, is_owner, is_vip, loop, rangevars, msg_id,
                   copied, failed, is_free_user, success, broke, temp_files,
                   fetched, delivered, histvars, prompted>>
    /\ UNCHANGED <<temp_dir, file_size>>
    /\ UNCHANGED othervars

Next ==
    \/ stop_command
    \/ text_handler_other
    \/ ReturnToMenu
    \/ \E s \in 1..MaxId : \E e \in s..MaxId : start_copy(s, e)
    \/ \E found \in BOOLEAN : CM_client(found)
    \/ CM_top
    \/ \E edited \in BOOLEAN : CM_quota_edit(edited)
    \/ \E res \in FetchResults : \E size \in SizesOf(res) : CM_fetch(res, size)
    \/ \E res \in {"file", "nothing", "raise"} : CM_download(res)
    \/ \E res \in {"sent", "nothing", "raise"} : \E stored \in BOOLEAN :
          CM_send_media(res, stored)
    \/ \E res \in {"sent", "raise"} : \E stored \in BOOLEAN :
          CM_send_text(res, stored)
    \/ \E edited \in BOOLEAN : CM_final(edited)
    \/ \E s \in 1..MaxId : \E e \in s..MaxId : text_handler_personal(s, e)
    \/ \E res \in {"client", "none", "reply_raise"} : PC_client(res)
    \/ PC_top
    \/ \E edited \in BOOLEAN : PC_cancel_edit(edited)
    \/ \E res \in PersonalFetchResults : \E size \in SizesOf(res) :
          \E edited \in BOOLEAN : PC_fetch(res, size, edited)
    \/ \E res \in {"file", "nothing", "raise"} : \E edited \in BOOLEAN :
          PC_download_large(res, edited)
    \/ \E res \in {"sent", "raise"} : \E edited \in BOOLEAN :
          PC_send_large(res, edited)
    \/ \E res \in {"file", "nothing", "raise"} : \E edited \in BOOLEAN :
          PC_download_small(res, edited)
    \/ \E res \in {"sent", "raise"} : \E edited \in BOOLEAN :
          PC_send_small(res, edited)
    \/ \E res \in {"sent", "raise"} : \E edited \in BOOLEAN :
          PC_send_text(res, edited)
    \/ \E edited \in BOOLEAN : \E stored \in 0..MaxId :
          PC_final(edited, stored)

Spec == Init /\ [][Next]_vars

\* ---- clean_channel_input ----

\* A channel reference is a sequence of characters; the prefix
\* "https://t.me/" is one element, as no step of the function looks inside it.
Chars == {" ", "https://t.me/", "+", "@", "-", "0", "1", "a"}
Digits == {"0", "1"}
Prefix100 == <<"-", "1", "0", "0">>

\* the strings of at most n characters
Strings(n) == UNION {[1..k -> Chars] : k \in 0..n}

\* str.lstrip(c) and str.rstrip(c)
RECURSIVE lstrip(_, _)
lstrip(str, c) ==
    IF str # <<>> /\ Head(str) = c THEN lstrip(Tail(str), c) ELSE str

RECURSIVE rstrip(_, _)
rstrip(str, c) ==
    IF str # <<>> /\ str[Len(str)] = c
    THEN rstrip(SubSeq(str, 1, Len(str) - 1), c)
    ELSE str

\* str.strip() on strings whose only whitespace is the blank
strip(str) == rstrip(lstrip(str, " "), " ")

\* str.startswith(prefix)
startswith(str, prefix) ==
    Len(str) >= Len(prefix) /\ SubSeq(str, 1, Len(prefix)) = prefix

\* str.replace(c, '')
remove(str, c) == SelectSeq(str, LAMBDA x : x # c)

\* str.isdigit()
isdigit(str) == str # <<>> /\ \A i \in 1..Len(str) : str[i] \in Digits

\* the characters of [A-Za-z0-9_-] in Chars
HashChars == {"-", "0", "1", "a"}

\* the longest prefix of str made of characters of S
RECURSIVE Run(_, _)
Run(str, S) ==
    IF str # <<>> /\ Head(str) \in S
    THEN <<Head(str)>> \o Run(Tail(str), S)
    ELSE <<>>

\* the positions where t\.me/(?:\+|joinchat/)([A-Za-z0-9_-]+) matches
InviteAt(str) ==
    {i \in 1..Len(str) : /\ i + 2 <= Len(str)
                         /\ str[i] = "https://t.me/"
                         /\ str[i + 1] = "+"
                         /\ str[i + 2] \in HashChars}

\* group 1 of the leftmost match
invite_hash(str) ==
    LET i == CHOOSE k \in InviteAt(str) : \A j \in InviteAt(str) : k <= j
    IN  Run(SubSeq(str, i + 2, Len(str)), HashChars)

\* every numeric reference gets the prefix, whatever its length
NeedsPrefix_any(channel) == ~startswith(channel, Prefix100)

\* not channel.startswith('-100') and len(channel) > 3
NeedsPrefix(channel) == ~startswith(channel, Prefix100) /\ Len(channel) > 3

\* MessageHandler.clean_channel_input: (cleaned_input, input_type)
clean_channel_input(channel) ==
    LET c0 == strip(channel)
        c1 == IF startswith(c0, <<"https://t.me/">>)
              THEN remove(c0, "https://t.me/")
              ELSE c0
        c2 == IF startswith(c1, <<"@">>) THEN Tail(c1) ELSE c1
    IN  IF InviteAt(c0) # {}
        THEN <<invite_hash(c0), "invite">>
        ELSE IF isdigit(lstrip(c2, "-"))
        THEN <<IF NeedsPrefix(c2) THEN Prefix100 \o lstrip(c2, "-") ELSE c2,
               "id">>
        ELSE <<c2, "username">>

\* the copy loops at rest
CopyIdle ==
    /\ is_cancelled = FALSE
    /\ message_count = 0
    /\ is_owner = FALSE
    /\ is_vip = FALSE
    /\ loop = "idle"
    /\ pc = "idle"
    /\ start_id = 0
    /\ end_id = 0
    /\ msg_id = 0
    /\ total = 0
    /\ copied = 0
    /\ failed = 0
    /\ stats = NoStats
    /\ is_free_user = FALSE
    /\ success = FALSE
    /\ outcome = "none"
    /\ broke = FALSE
    /\ temp_files = {}
    /\ temp_dir = FALSE
    /\ file_size = NoSize
    /\ fetched = <<>>
    /\ delivered = 0
    /\ count0 = 0
    /\ stop_in_run = FALSE
    /\ prompted = FALSE

\* a caller hands a channel reference to clean_channel_input
InitClean ==
    /\ CopyIdle
    /\ text \in Strings(MaxLen)
    /\ parsed = NotParsed
    /\ ResolveIdle
    /\ LaterIdle

\* the function returns
CleanInput ==
    /\ parsed = NotParsed
    /\ parsed' = clean_channel_input(text)
    /\ UNCHANGED <<text, copyvars, resolvevars, latervars>>

NextClean == CleanInput

SpecClean == InitClean /\ [][NextClean]_vars

\* ---- message links ----

\* A link is "https://t.me/" followed by characters of LinkChars; of these
\* "c", "0" and "1" are word characters (\w).
LinkChars == {"c", "/", "-", "0", "1"}
WordChars == {"c", "0", "1"}

Links(n) ==
    {<<"https://t.me/">> \o body :
        body \in UNION {[1..k -> LinkChars] : k \in 0..n}}

\* int() of a string of digits
RECURSIVE int(_)
int(str) ==
    IF str = <<>> THEN 0
    ELSE 10 * int(SubSeq(str, 1, Len(str) - 1))
         + (IF str[Len(str)] = "1" THEN 1 ELSE 0)

\* re.match of  <lead>(<S>+)/(\d+)(?:-(\d+))?  at the start of str: whether
\* it matches and its three groups (g3 empty when the suffix is absent);
\* every repetition is greedy and none can give back a character
link_match(str, lead, S) ==
    LET n  == Len(str)
        g1 == Run(SubSeq(str, Len(lead) + 1, n), S)
        p1 == Len(lead) + Len(g1) + 1
        g2 == Run(SubSeq(str, p1 + 1, n), Digits)
        p2 == p1 + Len(g2) + 1
        g3 == IF p2 <= n /\ str[p2] = "-"
              THEN Run(SubSeq(str, p2 + 1, n), Digits)
              ELSE <<>>
    IN  [ok |-> /\ startswith(str, lead)
                /\ g1 # <<>>
                /\ p1 <= n
                /\ str[p1] = "/"
                /\ g2 # <<>>,
         g1 |-> g1, g2 |-> g2, g3 |-> g3]

\* link_pattern_private and link_pattern_public
match_private(str) == link_match(str, <<"https://t.me/", "c", "/">>, Digits)
match_public(str) == link_match(str, <<"https://t.me/">>, WordChars)

\* the public pattern tried before the private one
link_kind_public_first(str) ==
    IF match_public(str).ok THEN "public"
    ELSE IF match_private(str).ok THEN "private"
    ELSE "invalid"

\* which pattern decides: the private one is tried first
link_kind(str) ==
    IF match_private(str).ok THEN "private"
    ELSE IF match_public(str).ok THEN "public"
    ELSE "invalid"

NoLink == [kind |-> "invalid", channel |-> 0, username |-> <<>>,
           start_id |-> 0, end_id |-> 0]

\* text_handler, state awaiting_personal_copy_link: channel, start_id and
\* end_id of the link
personal_link(str) ==
    LET kind == link_kind(str)
        m == IF kind = "private" THEN match_private(str) ELSE match_public(str)
    IN  IF kind = "invalid" THEN NoLink
        ELSE [kind |-> kind,
              channel |-> IF kind = "private"
                          THEN 0 - int(<<"1", "0", "0">> \o m.g1)
                          ELSE 0,
              username |-> IF kind = "public" THEN m.g1 ELSE <<>>,
              start_id |-> int(m.g2),
              end_id |-> IF m.g3 # <<>> THEN int(m.g3) ELSE int(m.g2)]

\* handle_source_channel_input: channel_id or channel_username and msg_id;
\* its patterns have no range suffix and a text after the message ID is
\* not looked at
source_link(str) ==
    LET kind == link_kind(str)
        m == IF kind = "private" THEN match_private(str) ELSE match_public(str)
    IN  IF kind = "invalid" THEN NoLink
        ELSE [kind |-> kind,
              channel |-> IF kind = "private"
                          THEN 0 - int(<<"1", "0", "0">> \o m.g1)
                          ELSE 0,
              username |-> IF kind = "public" THEN m.g1 ELSE <<>>,
              start_id |-> int(m.g2),
              end_id |-> int(m.g2)]

\* the user sends a link
InitLink ==
    /\ CopyIdle
    /\ text \in Links(MaxBody)
    /\ parsed = NotParsed
    /\ ResolveIdle
    /\ LaterIdle

\* personal copy parses the link
ParsePersonal ==
    /\ parsed = NotParsed
    /\ parsed' = <<"personal", personal_link(text)>>
    /\ UNCHANGED <<text, copyvars, resolvevars, latervars>>

\* source-channel setup parses the link
ParseSource ==
    /\ parsed = NotParsed
    /\ parsed' = <<"source", source_link(text)>>
    /\ UNCHANGED <<text, copyvars, resolvevars, latervars>>

NextLink ==
    \/ ParsePersonal
    \/ ParseSource

SpecLink == InitLink /\ [][NextLink]_vars

\* ---- join_channel_by_invite and validate_channel_access ----

\* what join_chat can raise: the three classes the function names and any
\* other exception
JoinErrors == {"UserAlreadyParticipant", "InviteHashExpired",
               "InviteHashInvalid", "Exception"}

\* return True, str(chat.id), chat.title
ReturnChat ==
    /\ rpc' = "returned"
    /\ ret' = [success |-> TRUE, chat_id |-> "id", reason |-> ""]

\* return False, "", reason
ReturnFail(reason) ==
    /\ rpc' = "returned"
    /\ ret' = [success |-> FALSE, chat_id |-> "", reason |-> reason]

\* an exception leaves join_channel_by_invite: called from
\* validate_channel_access it is caught by that function's outer except
Propagate ==
    IF fn = "validate"
    THEN ReturnFail("Error validating channel")
    ELSE /\ rpc' = "raised"
         /\ UNCHANGED ret

\* the except clauses of join_chat without the last one
JoinHandler_no_catchall(exc) ==
    CASE exc = "UserAlreadyParticipant" -> "get_chat"
      [] exc = "InviteHashExpired" -> "Invitation link has expired"
      [] exc = "InviteHashInvalid" -> "Invalid invitation link"
      [] OTHER -> "propagate"

\* the except clauses of join_chat: the call that follows, or the reason
\* returned
JoinHandler(exc) ==
    CASE exc = "UserAlreadyParticipant" -> "get_chat"
      [] exc = "InviteHashExpired" -> "Invitation link has expired"
      [] exc = "InviteHashInvalid" -> "Invalid invitation link"
      [] OTHER -> "Failed to join channel"

\* a caller hands a channel reference to a resolver
InitResolve ==
    /\ CopyIdle
    /\ text \in Strings(MaxRefLen)
    /\ parsed = NotParsed
    /\ ResolveIdle
    /\ LaterIdle

\* handle_source_channel_input calls join_channel_by_invite with the hash
\* of an invite link; join_chat is awaited
call_join ==
    /\ rpc = "idle"
    /\ clean_channel_input(text)[2] = "invite"
    /\ fn' = "join"
    /\ parsed' = clean_channel_input(text)
    /\ cleaned_channel' = clean_channel_input(text)[1]
    /\ input_type' = "invite"
    /\ rpc' = "join_chat"
    /\ UNCHANGED <<text, chat, scanned, ret, copyvars, latervars,
                   calls>>

\* validate_channel_access is called: an empty reference is refused, an
\* invite goes to join_channel_by_invite, an ID gets the -100 prefix, and
\* get_chat is awaited
call_validate ==
    /\ rpc = "idle"
    /\ fn' = "validate"
    /\ parsed' = clean_channel_input(text)
    /\ input_type' = parsed'[2]
    /\ IF parsed'[1] = <<>>
       THEN /\ ReturnFail("Invalid channel format")
            /\ cleaned_channel' = parsed'[1]
       ELSE IF parsed'[2] = "invite"
       THEN /\ rpc' = "join_chat"
            /\ cleaned_channel' = parsed'[1]
            /\ UNCHANGED ret
       ELSE /\ rpc' = "get_chat"
            /\ cleaned_channel' =
                  IF parsed'[2] = "id" /\ ~startswith(parsed'[1], Prefix100)
                  THEN Prefix100 \o lstrip(parsed'[1], "-")
                  ELSE parsed'[1]
            /\ UNCHANGED ret
    /\ UNCHANGED <<text, chat, scanned, copyvars, latervars,
                   calls>>

\* join_chat returns the chat or raises
J_join_chat(res) ==
    /\ rpc = "join_chat"
    /\ IF res = "chat"
       THEN ReturnChat
       ELSE CASE JoinHandler(res) = "get_chat" ->
                   /\ rpc' = "j_get_chat"
                   /\ UNCHANGED ret
              [] JoinHandler(res) = "propagate" -> Propagate
              [] OTHER -> ReturnFail(JoinHandler(res))
    /\ calls' = Append(calls, <<"join_chat", <<res>>>>)
    /\ UNCHANGED <<text, parsed, fn, cleaned_channel, input_type, chat,
                   scanned, copyvars, latervars>>

\* already a member: get_chat on the invite link returns the chat, or it
\* raises and the dialogs are scanned
J_get_chat(res) ==
    /\ rpc = "j_get_chat"
    /\ IF res = "chat"
       THEN /\ ReturnChat
            /\ UNCHANGED scanned
       ELSE /\ rpc' = "j_dialogs"
            /\ scanned' = 0
            /\ UNCHANGED ret
    /\ calls' = Append(calls, <<"get_chat", <<res>>>>)
    /\ UNCHANGED <<text, parsed, fn, cleaned_channel, input_type, chat,
                   copyvars, latervars>>

\* the scan of get_dialogs yields a channel or supergroup (its invite link
\* is asked for), yields another chat, ends, or raises
J_dialogs(res) ==
    /\ rpc = "j_dialogs"
    /\ CASE res = "channel" ->
              /\ scanned < MaxDialogs
              /\ scanned' = scanned + 1
              /\ rpc' = "j_invite_link"
              /\ UNCHANGED ret
         [] res = "other" ->
              /\ scanned < MaxDialogs
              /\ scanned' = scanned + 1
              /\ UNCHANGED <<rpc, ret>>
         [] res \in {"end", "raise"} ->
              /\ ReturnFail("Could not find the channel")
              /\ UNCHANGED scanned
    /\ calls' = Append(calls, <<"get_dialogs", <<res>>>>)
    /\ UNCHANGED <<text, parsed, fn, cleaned_channel, input_type, chat,
                   copyvars, latervars>>

\* the hashes of the invite links get_chat_invite_link answers with
DialogHashes == {<<"a">>, <<"a", "0">>, <<"0">>, <<"1", "a">>}

\* invite_hash in invite_link.invite_link: the hash occurs somewhere in the
\* link; no hash of HashChars occurs in the "https://t.me/+" before the
\* link's own hash
HashMatch(hash, link_hash) ==
    \E i \in 1..(Len(link_hash) - Len(hash) + 1) :
        SubSeq(link_hash, i, i + Len(hash) - 1) = hash

\* get_chat_invite_link returns the dialog's link, which holds the hash or
\* does not, or raises (the scan goes on)
J_invite_link(res) ==
    /\ rpc = "j_invite_link"
    /\ IF res # <<"raise">> /\ HashMatch(cleaned_channel, res)
       THEN ReturnChat
       ELSE /\ rpc' = "j_dialogs"
            /\ UNCHANGED ret
    /\ calls' = Append(calls, <<"get_chat_invite_link", res>>)
    /\ UNCHANGED <<text, parsed, fn, cleaned_channel, input_type, chat,
                   scanned, copyvars, latervars>>

\* after a chat was found: only a channel or supergroup goes on to the
\* membership check
TypeCheck(type) ==
    IF type \in {"channel", "supergroup"}
    THEN /\ rpc' = "get_chat_member"
         /\ UNCHANGED ret
    ELSE ReturnFail("The provided chat is not a channel or supergroup")

\* method 1: get_chat returns a chat of some type, or raises and the
\* dialogs are scanned
V_get_chat(res) ==
    /\ rpc = "get_chat"
    /\ IF res = "raise"
       THEN /\ chat' = "None"
            /\ rpc' = "v_dialogs"
            /\ scanned' = 0
            /\ UNCHANGED ret
       ELSE /\ chat' = res
            /\ TypeCheck(res)
            /\ UNCHANGED scanned
    /\ UNCHANGED <<text, parsed, fn, cleaned_channel, input_type, copyvars, latervars,
                   calls>>

\* method 2: the scan yields the channel looked for, yields another chat,
\* ends, or raises
V_dialogs(res) ==
    /\ rpc = "v_dialogs"
    /\ CASE res = "match" ->
              /\ scanned < MaxDialogs
              /\ scanned' = scanned + 1
              /\ chat' = "channel"
              /\ TypeCheck("channel")
         [] res = "other" ->
              /\ scanned < MaxDialogs
              /\ scanned' = scanned + 1
              /\ UNCHANGED <<rpc, ret, chat>>
         [] res \in {"end", "raise"} ->
              /\ ReturnFail("Channel not found or no access")
              /\ UNCHANGED <<scanned, chat>>
    /\ UNCHANGED <<text, parsed, fn, cleaned_channel, input_type, copyvars, latervars,
                   calls>>

\* get_chat_member(chat.id, "me") returns or raises
V_get_chat_member(res) ==
    /\ rpc = "get_chat_member"
    /\ IF res = "member" THEN ReturnChat
       ELSE ReturnFail("No access to the channel")
    /\ UNCHANGED <<text, parsed, fn, cleaned_channel, input_type, chat,
                   scanned, copyvars, latervars,
                   calls>>

NextResolve ==
    \/ call_join
    \/ call_validate
    \/ \E res \in {"chat"} \cup JoinErrors : J_join_chat(res)
    \/ \E res \in {"chat", "raise"} : J_get_chat(res)
    \/ \E res \in {"channel", "other", "end", "raise"} : J_dialogs(res)
    \/ \E res \in {<<"raise">>} \cup DialogHashes : J_invite_link(res)
    \/ \E res \in {"channel", "supergroup", "group", "raise"} :
          V_get_chat(res)
    \/ \E res \in {"match", "other", "end", "raise"} : V_dialogs(res)
    \/ \E res \in {"member", "raise"} : V_get_chat_member(res)

SpecResolve == InitResolve /\ [][NextResolve]_vars

\* ---- channel setup: handle_source_channel_input, handle_target_channel_input ----

\* the references a user sends: message links of a private channel (message
\* IDs 1 and 0) and of a public one, an invitation link, the same after an
\* "@", a username and a numeric ID
SetupTexts ==
    { <<"https://t.me/", "c", "/", "1", "/", "1">>,
      <<"https://t.me/", "c", "/", "1", "/", "0">>,
      <<"https://t.me/", "c", "c", "/", "1">>,
      <<"https://t.me/", "+", "a">>,
      <<"@", "https://t.me/", "+", "a">>,
      <<"@", "a">>,
      <<"-", "1", "0", "0", "1">> }

\* the rest of the model stays at rest during channel setup
SetupFrame == <<copyvars, parsed, resolvevars, barvars, progvars,
               sharedvars, sessvars,
                  morevars>>

InitSetup ==
    /\ CopyIdle
    /\ ResolveIdle
    /\ parsed = NotParsed
    /\ text = <<>>
    /\ state = "main_menu"
    /\ source_channel \in {"None", "old"}
    /\ target_channel \in {"None", "old"}
    /\ range_set \in BOOLEAN
    /\ setup_pc = "idle"
    /\ handler = "none"
    /\ chat_obj = "None"
    /\ resolved = FALSE
    /\ replied = "none"
    /\ before = <<source_channel, target_channel>>
    /\ unverified = FALSE
    /\ launched = "none"
    /\ BarIdle
    /\ ProgressIdle
    /\ SharedIdle
    /\ SessionIdle
    /\ MoreIdle

\* ButtonHandler.handle_source_channel_setup
handle_source_channel_setup ==
    /\ setup_pc = "idle"
    /\ state' = "awaiting_source_channel"
    /\ UNCHANGED <<text, source_channel, target_channel, range_set, setup_pc,
                   handler, chat_obj, resolved, replied, before, unverified,
                   launched, SetupFrame>>

\* ButtonHandler.handle_target_channel_setup
handle_target_channel_setup ==
    /\ setup_pc = "idle"
    /\ state' = "awaiting_target_channel"
    /\ UNCHANGED <<text, source_channel, target_channel, range_set, setup_pc,
                   handler, chat_obj, resolved, replied, before, unverified,
                   launched, SetupFrame>>

\* text_handler hands the text to the handler the state names; the handler
\* awaits get_user_client first
text_handler_setup(t) ==
    /\ setup_pc = "idle"
    /\ state \in {"awaiting_source_channel", "awaiting_target_channel"}
    /\ text' = t
    /\ handler' = IF state = "awaiting_source_channel" THEN "source" ELSE "target"
    /\ setup_pc' = "client"
    /\ chat_obj' = "None"
    /\ resolved' = FALSE
    /\ replied' = "none"
    /\ before' = <<source_channel, target_channel>>
    /\ UNCHANGED <<state, source_channel, target_channel, range_set,
                   unverified, launched, SetupFrame>>

\* the handler ends with reply r and leaves the session as it is
EndSetup(r) ==
    /\ setup_pc' = "idle"
    /\ replied' = r
    /\ UNCHANGED <<state, source_channel, target_channel, unverified>>

\* update_user_session with source_channel and state main_menu, then the
\* reply "Source channel set successfully"
SetSource ==
    /\ source_channel' = "chat"
    /\ unverified' = FALSE
    /\ state' = "main_menu"
    /\ setup_pc' = "idle"
    /\ replied' = "set"
    /\ resolved' = TRUE
    /\ UNCHANGED target_channel

\* the source is set only when some call has returned the chat
StoreLinkId_never ==
    /\ setup_pc' = "idle"
    /\ replied' = "failed"
    /\ UNCHANGED <<state, source_channel, target_channel, unverified, resolved>>

\* "If all else fails, but we have a channel_id, set it and warn": the ID
\* read from the link is stored, then the warning is awaited
StoreLinkId ==
    /\ source_channel' = "link_id"
    /\ unverified' = ~resolved
    /\ state' = "main_menu"
    /\ setup_pc' = "s_warn"
    /\ UNCHANGED <<target_channel, replied, resolved>>

\* the fallback of the source handler: the first call its input type asks for
Fallback(t) ==
    IF clean_channel_input(strip(t))[2] = "invite" THEN "s_join"
    ELSE IF clean_channel_input(strip(t))[2] = "username"
            \/ startswith(strip(t), <<"@">>)
    THEN "s_username"
    ELSE "s_id"

\* get_user_client returned
S_client(found) ==
    /\ setup_pc = "client"
    /\ handler = "source"
    /\ IF ~found THEN EndSetup("no_session")
       ELSE /\ setup_pc' = IF link_kind(strip(text)) = "private"
                           THEN "s_get_messages" ELSE "s_dialogs"
            /\ UNCHANGED <<state, source_channel, target_channel, unverified,
                           replied>>
    /\ UNCHANGED <<text, range_set, handler, chat_obj, resolved, before,
                   launched, SetupFrame>>

\* private link: get_messages(channel_id, msg_id) returned a message with
\* its chat, a message without one, or raised
S_get_messages(res) ==
    /\ setup_pc = "s_get_messages"
    /\ IF res = "chat" THEN SetSource
       ELSE /\ setup_pc' = "s_dialogs"
            /\ UNCHANGED <<state, source_channel, target_channel, unverified,
                           replied, resolved>>
    /\ UNCHANGED <<text, range_set, handler, chat_obj, before, launched,
                   SetupFrame>>

\* Step 1: the dialogs were loaded, or the load raised
S_dialogs ==
    /\ setup_pc = "s_dialogs"
    /\ setup_pc' = IF link_kind(strip(text)) = "private" THEN "s_get_chat_id"
                   ELSE IF link_kind(strip(text)) = "public"
                   THEN "s_get_chat_username"
                   ELSE Fallback(text)
    /\ UNCHANGED <<text, state, source_channel, target_channel, range_set,
                   handler, chat_obj, resolved, replied, before, unverified,
                   launched, SetupFrame>>

\* Step 2 for a private link: get_chat(channel_id); Step 3 follows when the
\* chat came and msg_id is not 0, Step 4 otherwise
S_get_chat_id(res) ==
    /\ setup_pc = "s_get_chat_id"
    /\ IF res = "chat"
       THEN IF source_link(strip(text)).start_id # 0
            THEN /\ chat_obj' = "chat"
                 /\ resolved' = TRUE
                 /\ setup_pc' = "s_fetch"
                 /\ UNCHANGED <<state, source_channel, target_channel,
                                unverified, replied>>
            ELSE SetSource /\ chat_obj' = "chat"
       ELSE StoreLinkId /\ UNCHANGED chat_obj
    /\ UNCHANGED <<text, range_set, handler, before, launched, SetupFrame>>

\* Step 2 for a public link: get_chat(channel_username)
S_get_chat_username(res) ==
    /\ setup_pc = "s_get_chat_username"
    /\ IF res = "chat"
       THEN IF source_link(strip(text)).start_id # 0
            THEN /\ chat_obj' = "chat"
                 /\ resolved' = TRUE
                 /\ setup_pc' = "s_fetch"
                 /\ UNCHANGED <<state, source_channel, target_channel,
                                unverified, replied>>
            ELSE SetSource /\ chat_obj' = "chat"
       ELSE /\ setup_pc' = Fallback(text)
            /\ UNCHANGED <<state, source_channel, target_channel, unverified,
                           replied, resolved, chat_obj>>
    /\ UNCHANGED <<text, range_set, handler, before, launched, SetupFrame>>

\* Step 3: get_messages(chat_obj.id, msg_id) gave a message with its chat,
\* an empty message (chat_obj = msg.chat is None), or raised (chat_obj kept);
\* Step 4 and what follows it run without a further call
S_fetch(res) ==
    /\ setup_pc = "s_fetch"
    /\ IF res \in {"chat", "raise"} THEN SetSource /\ UNCHANGED chat_obj
       ELSE /\ chat_obj' = "None"
            /\ IF link_kind(strip(text)) = "private" THEN StoreLinkId
               ELSE /\ setup_pc' = Fallback(text)
                    /\ UNCHANGED <<state, source_channel, target_channel,
                                   unverified, replied, resolved>>
    /\ UNCHANGED <<text, range_set, handler, before, launched, SetupFrame>>

\* the warning reply carries parse_mode="html": the client library takes it
\* or raises on it, and the outer handler then replies with the general error
S_warn(sent) ==
    /\ setup_pc = "s_warn"
    /\ setup_pc' = "idle"
    /\ replied' = IF sent THEN "warned" ELSE "error"
    /\ UNCHANGED <<text, state, source_channel, target_channel, range_set,
                   handler, chat_obj, resolved, before, unverified, launched,
                   SetupFrame>>

\* fallback, invitation link: join_channel_by_invite returned
S_join(res) ==
    /\ setup_pc = "s_join"
    /\ IF res = "chat" THEN SetSource
       ELSE /\ setup_pc' = IF startswith(strip(text), <<"@">>)
                           THEN "s_username" ELSE "s_id"
            /\ UNCHANGED <<state, source_channel, target_channel, unverified,
                           replied, resolved>>
    /\ UNCHANGED <<text, range_set, handler, chat_obj, before, launched,
                   SetupFrame>>

\* fallback, username: get_chat("@" + cleaned)
S_username(res) ==
    /\ setup_pc = "s_username"
    /\ IF res = "chat" THEN SetSource /\ chat_obj' = "chat"
       ELSE /\ setup_pc' = "s_id"
            /\ UNCHANGED <<state, source_channel, target_channel, unverified,
                           replied, resolved, chat_obj>>
    /\ UNCHANGED <<text, range_set, handler, before, launched, SetupFrame>>

\* fallback, ID: get_chat(cleaned); the failure reply when it raised
S_id(res) ==
    /\ setup_pc = "s_id"
    /\ IF res = "chat" THEN SetSource /\ chat_obj' = "chat"
       ELSE EndSetup("failed") /\ UNCHANGED <<resolved, chat_obj>>
    /\ UNCHANGED <<text, range_set, handler, before, launched, SetupFrame>>

\* handle_target_channel_input: get_user_client returned; the resolver the
\* input type asks for is called
T_client(found) ==
    /\ setup_pc = "client"
    /\ handler = "target"
    /\ IF ~found THEN EndSetup("no_session")
       ELSE /\ setup_pc' = IF clean_channel_input(text)[2] = "invite"
                           THEN "t_join" ELSE "t_validate"
            /\ UNCHANGED <<state, source_channel, target_channel, unverified,
                           replied>>
    /\ UNCHANGED <<text, range_set, handler, chat_obj, resolved, before,
                   launched, SetupFrame>>

\* join_channel_by_invite or validate_channel_access returned
T_resolve(res) ==
    /\ setup_pc \in {"t_join", "t_validate"}
    /\ IF res = "chat"
       THEN /\ setup_pc' = "t_member"
            /\ resolved' = TRUE
            /\ UNCHANGED <<state, source_channel, target_channel, unverified,
                           replied>>
       ELSE EndSetup("failed") /\ UNCHANGED resolved
    /\ UNCHANGED <<text, range_set, handler, chat_obj, before, launched,
                   SetupFrame>>

\* get_chat_member returned or raised; the target is stored either way
T_member ==
    /\ setup_pc = "t_member"
    /\ target_channel' = "chat"
    /\ state' = "main_menu"
    /\ setup_pc' = "idle"
    /\ replied' = "set"
    /\ UNCHANGED <<text, source_channel, range_set, handler, chat_obj,
                   resolved, before, unverified, launched, SetupFrame>>

\* callback start_copy: the run is launched when source, target and range
\* are all set
start_copy_callback ==
    /\ source_channel # "None"
    /\ target_channel # "None"
    /\ range_set
    /\ launched' = IF unverified THEN "unverified" ELSE "verified"
    /\ UNCHANGED <<text, state, source_channel, target_channel, range_set,
                   setup_pc, handler, chat_obj, resolved, replied, before,
                   unverified, SetupFrame>>

NextSetup ==
    \/ handle_source_channel_setup
    \/ handle_target_channel_setup
    \/ \E t \in SetupTexts : text_handler_setup(t)
    \/ \E found \in BOOLEAN : S_client(found)
    \/ \E res \in {"chat", "nochat", "raise"} : S_get_messages(res)
    \/ S_dialogs
    \/ \E res \in {"chat", "raise"} : S_get_chat_id(res)
    \/ \E res \in {"chat", "raise"} : S_get_chat_username(res)
    \/ \E res \in {"chat", "empty", "raise"} : S_fetch(res)
    \/ \E sent \in BOOLEAN : S_warn(sent)
    \/ \E res \in {"chat", "fail"} : S_join(res)
    \/ \E res \in {"chat", "raise"} : S_username(res)
    \/ \E res \in {"chat", "raise"} : S_id(res)
    \/ \E found \in BOOLEAN : T_client(found)
    \/ \E res \in {"chat", "fail"} : T_resolve(res)
    \/ T_member
    \/ start_copy_callback

SpecSetup == InitSetup /\ [][NextSetup]_vars

\* ---- the progress bar of the transfer callbacks ----

\* byte counts a progress update is drawn with
MaxBytes == 5

\* bar_length of both callbacks
bar_length == 30

\* n cells of one kind; none when n is not positive, as str * n in Python
cells(c, n) == [i \in 1..n |-> c]

\* the filled cells rounded up
filled_length_ceil(cur, denom) ==
    IF denom # 0 THEN (bar_length * cur + denom - 1) \div denom ELSE 0

\* int(bar_length * current // total_size) if total_size else 0
filled_length(cur, denom) ==
    IF denom # 0 THEN (bar_length * cur) \div denom ELSE 0

\* the filled cells, then bar_length - filled_length empty ones
render_bar(cur, denom) ==
    cells("full", filled_length(cur, denom))
        \o cells("empty", bar_length - filled_length(cur, denom))

\* a transfer reports current of total_size; download_size starts as the
\* size read from the message (file_size or 0)
InitBar ==
    /\ CopyIdle
    /\ ResolveIdle
    /\ SetupIdle
    /\ text = <<>>
    /\ parsed = NotParsed
    /\ current \in 0..MaxBytes
    /\ total_size \in 0..MaxBytes
    /\ download_size \in 0..MaxBytes
    /\ bar = <<>>
    /\ rendered = "none"
    /\ ProgressIdle
    /\ SharedIdle
    /\ SessionIdle
    /\ MoreIdle

\* progress_callback_dl(current, total_size), its throttled branch
progress_callback_dl ==
    /\ rendered = "none"
    /\ download_size' = total_size
    /\ bar' = render_bar(current, total_size)
    /\ rendered' = "download"
    /\ UNCHANGED <<current, total_size, copyvars, text, parsed, resolvevars,
                   setupvars, progvars, sharedvars, sessvars,
                   morevars>>

\* progress_callback_ul(current, total_size), its throttled branch: the
\* denominator is download_size
progress_callback_ul ==
    /\ rendered # "upload"
    /\ bar' = render_bar(current, download_size)
    /\ rendered' = "upload"
    /\ UNCHANGED <<current, total_size, download_size, copyvars, text, parsed,
                   resolvevars, setupvars, progvars, sharedvars, sessvars,
                   morevars>>

NextBar ==
    \/ progress_callback_dl
    \/ progress_callback_ul

SpecBar == InitBar /\ [][NextBar]_vars

\* ---- the throttle of status edits and the speed windows ----

\* the clock is read in ticks of half a second
TicksPerSecond == 2

\* min_edit_interval, in seconds
min_edit_interval == 1

\* max_samples of the download callback, the literal 10 of the upload one
max_samples == 10

\* the interval in ticks; a clock difference at or above it is kept as it
Interval == min_edit_interval * TicksPerSecond

\* the speeds (MB/s) a callback computes from the bytes it is called with
Speeds == {10, 20, 30}

\* a clock difference after dt more ticks
After(d, dt) == IF d + dt >= Interval THEN Interval ELSE d + dt

\* the sample is appended and nothing is discarded
push_sample_keep_all(samples, s) == Append(samples, s)

\* samples.append(s); if len(samples) > max_samples: samples.pop(0)
push_sample(samples, s) ==
    IF Len(Append(samples, s)) > max_samples
    THEN Tail(Append(samples, s))
    ELSE Append(samples, s)

\* sum(samples)
RECURSIVE sum(_)
sum(samples) ==
    IF samples = <<>> THEN 0 ELSE Head(samples) + sum(Tail(samples))

\* sum(samples) / len(samples) if samples else 0, as numerator and denominator
average(samples) ==
    IF samples # <<>> THEN <<sum(samples), Len(samples)>> ELSE <<0, 1>>

\* a download or an upload starts (last_edit_time or upload_last is the
\* time of the start, the window is empty) with the last status edit any
\* time back, or the personal loop starts with no status edit behind it
InitProgress ==
    /\ CopyIdle
    /\ ResolveIdle
    /\ SetupIdle
    /\ BarIdle
    /\ text = <<>>
    /\ parsed = NotParsed
    /\ transfer \in {"download", "upload", "personal"}
    /\ elapsed = 0
    /\ since_edit \in IF transfer = "personal" THEN {Interval} ELSE 0..Interval
    /\ edit_gap = NoGap
    /\ download_speed_samples = <<>>
    /\ upload_speed_samples = <<>>
    /\ avg_speed = <<0, 1>>
    /\ taken = 0
    /\ SharedIdle
    /\ SessionIdle
    /\ MoreIdle

ProgressFrame == <<copyvars, text, parsed, resolvevars, setupvars, barvars,
                  sharedvars, sessvars,
                  morevars>>

\* status_msg.edit_text is issued: the time since the edit before it is noted
StatusEdited(dt) ==
    /\ edit_gap' = After(since_edit, dt)
    /\ since_edit' = 0

\* progress_callback_dl is called dt ticks after the callback before it:
\* the sample is taken on every call, the status is edited when the
\* interval has passed since last_edit_time
throttle_dl(dt, speed) ==
    /\ transfer = "download"
    /\ download_speed_samples' = push_sample(download_speed_samples, speed)
    /\ avg_speed' = average(download_speed_samples')
    /\ taken' = IF taken > max_samples THEN taken ELSE taken + 1
    /\ IF After(elapsed, dt) >= Interval
       THEN /\ StatusEdited(dt)
            /\ elapsed' = 0
       ELSE /\ elapsed' = After(elapsed, dt)
            /\ since_edit' = After(since_edit, dt)
            /\ UNCHANGED edit_gap
    /\ UNCHANGED <<transfer, upload_speed_samples, ProgressFrame>>

\* progress_callback_ul: sample and edit both lie in the throttled branch
throttle_ul(dt, speed) ==
    /\ transfer = "upload"
    /\ IF After(elapsed, dt) >= Interval
       THEN /\ upload_speed_samples' = push_sample(upload_speed_samples, speed)
            /\ avg_speed' = average(upload_speed_samples')
            /\ taken' = IF taken > max_samples THEN taken ELSE taken + 1
            /\ StatusEdited(dt)
            /\ elapsed' = 0
       ELSE /\ elapsed' = After(elapsed, dt)
            /\ since_edit' = After(since_edit, dt)
            /\ UNCHANGED <<edit_gap, upload_speed_samples, avg_speed, taken>>
    /\ UNCHANGED <<transfer, download_speed_samples, ProgressFrame>>

\* the personal loop has handled one more message, dt ticks after the one
\* before, and edits the status
personal_status_edit(dt) ==
    /\ transfer = "personal"
    /\ StatusEdited(dt)
    /\ UNCHANGED <<transfer, elapsed, download_speed_samples,
                   upload_speed_samples, avg_speed, taken, ProgressFrame>>

NextProgress ==
    \/ \E dt \in 1..Interval : \E speed \in Speeds : throttle_dl(dt, speed)
    \/ \E dt \in 1..Interval : \E speed \in Speeds : throttle_ul(dt, speed)
    \/ \E dt \in 1..Interval : personal_status_edit(dt)

SpecProgress == InitProgress /\ [][NextProgress]_vars

\* ---- two copy tasks and the scratch directory they share ----

\* message IDs of the ranges of the two tasks
MaxSharedId == 2

\* seconds the clock goes through
MaxSecond == 1

\* str(int(time.time()))
second_str(n) == <<"1700000000", "1700000001", "1700000002">>[n + 1]

\* copy_messages: temp_dir/temp_{msg_id}_{media_type}{ext}, for a photo;
\* personal copy: temp_dir/temp_{msg_id}_{int(time.time())}.  Neither name
\* holds the user, the task or the source channel.
scratch_path(kind, m, sec) ==
    IF kind = "channel" THEN <<"temp", m, "photo.jpg">>
    ELSE <<"temp", m, second_str(sec)>>

SharedFrame == <<copyvars, text, parsed, resolvevars, setupvars, barvars,
                 progvars, sessvars,
                  morevars>>

\* each task slot belongs to a user
InitShared ==
    /\ CopyIdle
    /\ ResolveIdle
    /\ SetupIdle
    /\ BarIdle
    /\ ProgressIdle
    /\ text = <<>>
    /\ parsed = NotParsed
    /\ runs \in {[r \in Runs |-> [NoRun EXCEPT !.user = f[r]]] :
                    f \in [Runs -> Users]}
    /\ files = {}
    /\ dir_exists = FALSE
    /\ cancelled = [u \in Users |-> FALSE]
    /\ second = 0
    /\ SessionIdle
    /\ MoreIdle

\* the task of slot r finishes
EndRun(r) == runs' = [runs EXCEPT ![r].pc = "idle", ![r].kind = "none",
                                  ![r].file = NoFile]

\* callback start_copy of the slot's user: copy_messages starts, whatever
\* else runs; it creates temp_downloads when missing
start_copy_run(r, s, e) ==
    /\ runs[r].pc = "idle"
    /\ runs' = [runs EXCEPT ![r] = [user |-> runs[r].user, kind |-> "channel",
                                    pc |-> "top", msg_id |-> s, end_id |-> e,
                                    file |-> NoFile]]
    /\ dir_exists' = TRUE
    /\ UNCHANGED <<files, cancelled, second, SharedFrame>>

\* text_handler in state awaiting_personal_copy_link: the flag is reset and
\* the personal loop starts, whatever else runs; the state is left as it is
\* until the loop ends
personal_copy_run(r, s, e) ==
    /\ runs[r].pc = "idle"
    /\ runs' = [runs EXCEPT ![r] = [user |-> runs[r].user, kind |-> "personal",
                                    pc |-> "top", msg_id |-> s, end_id |-> e,
                                    file |-> NoFile]]
    /\ cancelled' = [cancelled EXCEPT ![runs[r].user] = FALSE]
    /\ dir_exists' = TRUE
    /\ UNCHANGED <<files, second, SharedFrame>>

\* /stop of user u
stop_user(u) ==
    /\ cancelled' = [cancelled EXCEPT ![u] = TRUE]
    /\ UNCHANGED <<runs, files, dir_exists, second, SharedFrame>>

\* the head of an iteration.  Cancelled or past the range, the task removes
\* every file under temp_downloads (os.listdir, os.remove) and ends; the
\* personal loop removes the directory as well (os.rmdir)
run_top(r) ==
    /\ runs[r].pc = "top"
    /\ IF cancelled[runs[r].user] \/ runs[r].msg_id > runs[r].end_id
       THEN /\ files' = {}
            /\ dir_exists' = (dir_exists /\ runs[r].kind = "channel")
            /\ EndRun(r)
       ELSE /\ runs' = [runs EXCEPT ![r].pc = "download"]
            /\ UNCHANGED <<files, dir_exists>>
    /\ UNCHANGED <<cancelled, second, SharedFrame>>

\* download_media(message, file_name=temp_file) has written the file
run_download(r) ==
    /\ runs[r].pc = "download"
    /\ files' = files \cup
                  {scratch_path(runs[r].kind, runs[r].msg_id, second)}
    /\ dir_exists' = TRUE
    /\ runs' = [runs EXCEPT
                  ![r].pc = "upload",
                  ![r].file = scratch_path(runs[r].kind, runs[r].msg_id, second)]
    /\ UNCHANGED <<cancelled, second, SharedFrame>>

\* the upload has returned or raised; the personal loop removes its file
run_upload(r) ==
    /\ runs[r].pc = "upload"
    /\ files' = IF runs[r].kind = "personal" THEN files \ {runs[r].file}
                ELSE files
    /\ runs' = [runs EXCEPT ![r].pc = "top", ![r].file = NoFile,
                            ![r].msg_id = runs[r].msg_id + 1]
    /\ UNCHANGED <<dir_exists, cancelled, second, SharedFrame>>

\* a second passes
tick ==
    /\ second < MaxSecond
    /\ second' = second + 1
    /\ UNCHANGED <<runs, files, dir_exists, cancelled, SharedFrame>>

NextShared ==
    \/ \E r \in Runs : \E s \in 1..MaxSharedId : \E e \in s..MaxSharedId :
          start_copy_run(r, s, e)
    \/ \E r \in Runs : \E s \in 1..MaxSharedId : \E e \in s..MaxSharedId :
          personal_copy_run(r, s, e)
    \/ \E u \in Users : stop_user(u)
    \/ \E r \in Runs : run_top(r)
    \/ \E r \in Runs : run_download(r)
    \/ \E r \in Runs : run_upload(r)
    \/ tick

SpecShared == InitShared /\ [][NextShared]_vars

\* ---- the session store: clear_user_session and get_user_client ----

\* the record get_user_session creates for a user that has none
DefaultSession == [state |-> "main_menu", source_channel |-> "None",
                   session_string |-> "None"]

\* a record a user has worked with
Sessions == {[state |-> st, source_channel |-> sc, session_string |-> ss] :
                st \in {"main_menu", "awaiting_source_channel"},
                sc \in {"None", "chat"},
                ss \in {"None", "string"}}

\* del d[u]
del(d, u) == [v \in DOMAIN d \ {u} |-> d[v]]

\* d[u] = x
put(d, u, x) == [v \in DOMAIN d \cup {u} |-> IF v = u THEN x ELSE d[v]]

\* get_user_session(u): the stored record, or a new default one
get_user_session(u) ==
    IF u \in DOMAIN user_sessions THEN user_sessions[u] ELSE DefaultSession

SessionFrame == <<copyvars, text, parsed, resolvevars, setupvars, barvars,
                  progvars, sharedvars, morevars>>

\* the store as loaded from disk or left by earlier work: some users have a
\* session, and a client exists only for users with a session string
InitSession ==
    /\ CopyIdle
    /\ ResolveIdle
    /\ SetupIdle
    /\ BarIdle
    /\ ProgressIdle
    /\ SharedIdle
    /\ MoreIdle
    /\ text = <<>>
    /\ parsed = NotParsed
    /\ \E S \in SUBSET Users : user_sessions \in [S -> Sessions]
    /\ \E C \in SUBSET {u \in DOMAIN user_sessions :
                          user_sessions[u].session_string # "None"} :
          active_clients \in [C -> {"connected", "broken"}]
    /\ clear_pc = [u \in Users |-> "idle"]
    /\ client_pc = [u \in Users |-> "idle"]
    /\ client_ret = [u \in Users |-> "none"]

\* the sign-in of user u has completed: the session string is stored and
\* the client is kept
sign_in(u) ==
    /\ clear_pc[u] # "stopping"
    /\ client_pc[u] = "idle"
    /\ user_sessions' = put(user_sessions, u,
                            [get_user_session(u) EXCEPT
                               !.session_string = "string",
                               !.state = "main_menu"])
    /\ active_clients' = put(active_clients, u, "connected")
    /\ clear_pc' = [clear_pc EXCEPT ![u] = "idle"]
    /\ UNCHANGED <<client_pc, client_ret, SessionFrame>>

\* the session data of u is deleted and clear_user_session returns
ClearData(u) ==
    /\ user_sessions' = del(user_sessions, u)
    /\ clear_pc' = [clear_pc EXCEPT ![u] = "done"]

\* the del of the finally clause raises KeyError when the entry is gone,
\* the outer except logs it, and the session data stays
FinallyDel(u) ==
    IF u \in DOMAIN active_clients
    THEN /\ active_clients' = del(active_clients, u)
         /\ ClearData(u)
    ELSE /\ clear_pc' = [clear_pc EXCEPT ![u] = "done"]
         /\ UNCHANGED <<user_sessions, active_clients>>

\* clear_user_session(u) is called: a connected client is stopped first
\* (awaited), then the entry and the session data are deleted
clear_user_session(u) ==
    /\ clear_pc[u] \in {"idle", "done"}
    /\ IF u \in DOMAIN active_clients /\ active_clients[u] = "connected"
       THEN /\ active_clients' = put(active_clients, u, "stopping")
            /\ clear_pc' = [clear_pc EXCEPT ![u] = "stopping"]
            /\ UNCHANGED user_sessions
       ELSE /\ active_clients' = del(active_clients, u)
            /\ ClearData(u)
    /\ UNCHANGED <<client_pc, client_ret, SessionFrame>>

\* client.stop() has returned or raised
clear_stopped(u) ==
    /\ clear_pc[u] = "stopping"
    /\ FinallyDel(u)
    /\ UNCHANGED <<client_pc, client_ret, SessionFrame>>

\* get_user_client: with no client kept, the session string decides
\* between create_user_client (awaited) and None
Restore(u) ==
    IF get_user_session(u).session_string # "None"
    THEN /\ client_pc' = [client_pc EXCEPT ![u] = "start"]
         /\ UNCHANGED client_ret
    ELSE /\ client_pc' = [client_pc EXCEPT ![u] = "idle"]
         /\ client_ret' = [client_ret EXCEPT ![u] = "None"]

\* get_user_client(u) is called: get_me is awaited on a kept client,
\* otherwise the session is read (and created when missing)
get_user_client(u) ==
    /\ client_pc[u] = "idle"
    /\ IF u \in DOMAIN active_clients
       THEN /\ client_pc' = [client_pc EXCEPT ![u] = "get_me"]
            /\ UNCHANGED <<client_ret, user_sessions>>
       ELSE /\ Restore(u)
            /\ user_sessions' = put(user_sessions, u, get_user_session(u))
    /\ UNCHANGED <<active_clients, clear_pc, SessionFrame>>

\* get_me returned (only a connected or stopping client can answer) or
\* raised: the entry is deleted, which raises KeyError when it is gone, and
\* the session is read
client_get_me(u, ok) ==
    /\ client_pc[u] = "get_me"
    /\ ok => /\ u \in DOMAIN active_clients
             /\ active_clients[u] \in {"connected", "stopping"}
    /\ IF ok
       THEN /\ client_pc' = [client_pc EXCEPT ![u] = "idle"]
            /\ client_ret' = [client_ret EXCEPT ![u] = "client"]
            /\ UNCHANGED <<active_clients, user_sessions>>
       ELSE IF u \notin DOMAIN active_clients
       THEN /\ client_pc' = [client_pc EXCEPT ![u] = "idle"]
            /\ client_ret' = [client_ret EXCEPT ![u] = "KeyError"]
            /\ UNCHANGED <<active_clients, user_sessions>>
       ELSE /\ active_clients' = del(active_clients, u)
            /\ Restore(u)
            /\ user_sessions' = put(user_sessions, u, get_user_session(u))
    /\ UNCHANGED <<clear_pc, SessionFrame>>

\* create_user_client: client.start() and get_me returned, the client is
\* kept; or one of them raised, None
client_started(u, ok) ==
    /\ client_pc[u] = "start"
    /\ client_pc' = [client_pc EXCEPT ![u] = "idle"]
    /\ IF ok
       THEN /\ active_clients' = put(active_clients, u, "connected")
            /\ client_ret' = [client_ret EXCEPT ![u] = "client"]
       ELSE /\ client_ret' = [client_ret EXCEPT ![u] = "None"]
            /\ UNCHANGED active_clients
    /\ UNCHANGED <<user_sessions, clear_pc, SessionFrame>>

NextSession ==
    \/ \E u \in Users : sign_in(u)
    \/ \E u \in Users : clear_user_session(u)
    \/ \E u \in Users : clear_stopped(u)
    \/ \E u \in Users : get_user_client(u)
    \/ \E u \in Users : \E ok \in BOOLEAN : client_get_me(u, ok)
    \/ \E u \in Users : \E ok \in BOOLEAN : client_started(u, ok)

SpecSession == InitSession /\ [][NextSession]_vars

\* ---- copy_messages called with any range, every awaited call answering ----

\* one step of the copy_messages coroutine: the call it is waiting for
\* returns or raises and the code runs on to the next await or to its return
copy_messages_step ==
    \/ \E found \in BOOLEAN : CM_client(found)
    \/ CM_top
    \/ \E edited \in BOOLEAN : CM_quota_edit(edited)
    \/ \E res \in FetchResults : \E size \in SizesOf(res) : CM_fetch(res, size)
    \/ \E res \in {"file", "nothing", "raise"} : CM_download(res)
    \/ \E res \in {"sent", "nothing", "raise"} : \E stored \in BOOLEAN :
          CM_send_media(res, stored)
    \/ \E res \in {"sent", "raise"} : \E stored \in BOOLEAN :
          CM_send_text(res, stored)
    \/ \E edited \in BOOLEAN : CM_final(edited)

\* the start and the end of the range are set by two separate inputs, each
\* only required to be at least 1, so a run can start with start > end
NextLive ==
    \/ stop_command
    \/ text_handler_other
    \/ ReturnToMenu
    \/ \E s \in 1..MaxId : \E e \in 1..MaxId : start_copy(s, e)
    \/ copy_messages_step

\* the event loop resumes the coroutine whenever the call it awaits has
\* answered, whatever other handlers run in between
SpecLive == Init /\ [][NextLive]_vars /\ WF_vars(copy_messages_step)

\* ---- quota, ranges, accounts and sign-in ----

\* the variables and the rest state of the specifications above this point
OldFrame == <<copyvars, text, parsed, resolvevars, setupvars, barvars,
              progvars, sharedvars, sessvars>>

OldIdle ==
    /\ CopyIdle
    /\ text = <<>>
    /\ parsed = NotParsed
    /\ ResolveIdle
    /\ SetupIdle /\ BarIdle /\ ProgressIdle /\ SharedIdle /\ SessionIdle

\* what each of the specifications below leaves alone, and where that rests
QuotaFrame == <<OldFrame, spanvars, startvars, adminvars, signvars>>

QuotaRest == OldIdle /\ SpanIdle /\ StartIdle /\ AdminIdle /\ SignIdle

SpanFrame == <<OldFrame, quotavars, startvars, adminvars, signvars>>

SpanRest == OldIdle /\ QuotaIdle /\ StartIdle /\ AdminIdle /\ SignIdle

StartFrame == <<OldFrame, quotavars, spanvars, adminvars, signvars>>

StartRest == OldIdle /\ QuotaIdle /\ SpanIdle /\ AdminIdle /\ SignIdle

AdminFrame == <<OldFrame, quotavars, spanvars, startvars, signvars>>

AdminRest == OldIdle /\ QuotaIdle /\ SpanIdle /\ StartIdle /\ SignIdle

SignFrame == <<OldFrame, quotavars, spanvars, startvars, adminvars>>

SignRest == OldIdle /\ QuotaIdle /\ SpanIdle /\ StartIdle /\ AdminIdle

\* ---- the quota of one free user under one or two copy_messages tasks ----

MaxQuotaId == 3           \* message IDs of the ranges of the quota specification

\* a free user whose count is at or below the limit; no task runs yet
InitQuota ==
    /\ QuotaRest
    /\ quota_runs = [r \in Runs |-> NoQuotaRun]
    /\ db_count \in 0..default_free_limit
    /\ db_count0 = db_count
    /\ transfers = 0

\* copy_messages of task r has its client: it reads the stats once before
\* the loop
quota_start(r, s, e) ==
    /\ quota_runs[r].pc = "idle"
    /\ quota_runs' = [quota_runs EXCEPT ![r] =
                         [pc |-> "top", msg_id |-> s, end_id |-> e,
                          count |-> db_count]]
    /\ UNCHANGED <<db_count, db_count0, transfers, QuotaFrame>>

\* the head of an iteration: past the range, cancelled, or at the limit by
\* the stats the task holds, the task returns; else the transfer starts
quota_top(r, stopped) ==
    /\ quota_runs[r].pc = "top"
    /\ IF \/ quota_runs[r].msg_id > quota_runs[r].end_id
          \/ stopped
          \/ quota_runs[r].count >= default_free_limit
       THEN quota_runs' = [quota_runs EXCEPT ![r].pc = "done"]
       ELSE quota_runs' = [quota_runs EXCEPT ![r].pc = "transfer"]
    /\ UNCHANGED <<db_count, db_count0, transfers, QuotaFrame>>

\* fetch, download and send of the message are over.  After a send that
\* succeeded the task reads the stats again and then increments the count in
\* the database, with no await in between; the UPDATE may raise
quota_transfer(r, sent, stored) ==
    /\ quota_runs[r].pc = "transfer"
    /\ IF sent
       THEN /\ transfers' = transfers + 1
            /\ db_count' = IF stored THEN db_count + 1 ELSE db_count
            /\ quota_runs' = [quota_runs EXCEPT
                                 ![r].pc = "top",
                                 ![r].count = db_count,
                                 ![r].msg_id = NextId(quota_runs[r].msg_id)]
       ELSE /\ quota_runs' = [quota_runs EXCEPT
                                 ![r].pc = "top",
                                 ![r].msg_id = NextId(quota_runs[r].msg_id)]
            /\ UNCHANGED <<transfers, db_count>>
    /\ UNCHANGED <<db_count0, QuotaFrame>>

NextQuota ==
    \/ \E r \in Runs : \E s \in 1..MaxQuotaId : \E e \in s..MaxQuotaId :
          quota_start(r, s, e)
    \/ \E r \in Runs : \E stopped \in BOOLEAN : quota_top(r, stopped)
    \/ \E r \in Runs : \E sent \in BOOLEAN : \E stored \in BOOLEAN :
          quota_transfer(r, sent, stored)

SpecQuota == InitQuota /\ [][NextQuota]_vars

\* ---- the message range of a session ----

\* the range of handle_message_range_input holds end - start up to this
max_range == 1000

\* the numbers a user types, as strings of digits
RangeNumbers ==
    { <<"0">>, <<"1">>, <<"1", "0">>, <<"1", "0", "0", "0">>,
      <<"1", "0", "0", "1">>, <<"1", "0", "1", "0">> }

\* the texts sent while a range is awaited: a-b, a - b with blanks, a alone,
\* a--b, and nothing but a dash
RangeTexts ==
    {a \o <<"-">> \o b : a \in RangeNumbers, b \in RangeNumbers}
    \cup {a \o <<" ", "-", " ">> \o b : a \in {<<"1">>}, b \in RangeNumbers}
    \cup RangeNumbers
    \cup {a \o <<"-", "-">> \o b : a \in {<<"1">>}, b \in {<<"1", "0">>}}
    \cup {<<"-">>}

\* message links that end in a message ID, and one that does not
RangeLinks ==
    {<<"https://t.me/", "c", "/", "1", "/">> \o a : a \in RangeNumbers}
    \cup {<<"https://t.me/">> \o a : a \in {<<"1">>}}
    \cup {<<"https://t.me/", "c", "/", "1", "/">>,
          <<"https://t.me/", "c", "/", "1", "/", "1", "a">>}

\* int(str.strip()): an optional minus sign and digits, else ValueError
py_int(str) ==
    LET s    == strip(str)
        neg  == s # <<>> /\ Head(s) = "-"
        body == IF neg THEN Tail(s) ELSE s
    IN  [ok |-> isdigit(body),
         val |-> IF neg THEN 0 - int(body) ELSE int(body)]

\* str.split('-', 1) of a string that holds a dash
split_dash(str) ==
    LET i == CHOOSE k \in 1..Len(str) :
                 str[k] = "-" /\ \A j \in 1..(k - 1) : str[j] # "-"
    IN  <<SubSeq(str, 1, i - 1), SubSeq(str, i + 1, Len(str))>>

\* parse_message_range: the text is split at its first dash, both parts must
\* be integers above 0, and a reversed pair is swapped
parse_message_range(range_str) ==
    LET s     == strip(range_str)
        dash  == \E k \in 1..Len(s) : s[k] = "-"
        parts == IF dash THEN split_dash(s) ELSE <<s, s>>
        a     == py_int(parts[1])
        b     == py_int(parts[2])
    IN  IF ~dash \/ ~a.ok \/ ~b.ok \/ a.val <= 0 \/ b.val <= 0
        THEN [ok |-> FALSE, start_id |-> 0, end_id |-> 0]
        ELSE IF a.val > b.val
        THEN [ok |-> TRUE, start_id |-> b.val, end_id |-> a.val]
        ELSE [ok |-> TRUE, start_id |-> a.val, end_id |-> b.val]

\* the test of handle_message_range_input on the size of the range
TooLarge(s, e) == e - s > max_range

\* extract_message_id_from_link: re.search of /([0-9]+)$ , 0 for None
extract_message_id_from_link(link) ==
    LET n == Len(link)
        k == Len(Run([i \in 1..n |-> link[n + 1 - i]], Digits))
    IN  IF k > 0 /\ k < n /\ link[n - k] \in {"/", "https://t.me/"}
        THEN int(SubSeq(link, n - k + 1, n))
        ELSE 0

InitRange ==
    /\ SpanRest
    /\ SpanIdle

\* a handler starts: the session as it finds it
Found == range_prev' = <<start_msg_id, end_msg_id, range_state>>

\* callback range_all with a source and a client: start 1 and the ID of the
\* last message of the source channel (1 when the history is empty); when
\* the history cannot be read, start 1 and the end is awaited
range_all(last) ==
    /\ Found
    /\ range_in' = <<>>
    /\ IF last = <<"raise">>
       THEN /\ range_state' = "awaiting_range_end_link"
            /\ start_msg_id' = 1
            /\ UNCHANGED end_msg_id
       ELSE /\ range_state' = "main_menu"
            /\ start_msg_id' = 1
            /\ end_msg_id' = IF last = <<>> THEN 1 ELSE int(last)
    /\ range_reply' = "all"
    /\ range_launch' = <<>>
    /\ UNCHANGED SpanFrame

\* callbacks range_set_start and range_set_end, and
\* handle_message_range_setup: the next text is awaited
await_range(st) ==
    /\ Found
    /\ range_in' = <<>>
    /\ range_state' = st
    /\ range_reply' = "asked"
    /\ range_launch' = <<>>
    /\ UNCHANGED <<start_msg_id, end_msg_id, SpanFrame>>

\* handle_message_range_input
handle_message_range_input(range_text) ==
    LET r == parse_message_range(range_text)
    IN  IF ~r.ok
        THEN /\ range_reply' = "invalid"
             /\ UNCHANGED <<start_msg_id, end_msg_id, range_state>>
        ELSE IF r.start_id < 1 \/ r.end_id < 1 \/ r.start_id > r.end_id
        THEN /\ range_reply' = "rejected"
             /\ UNCHANGED <<start_msg_id, end_msg_id, range_state>>
        ELSE IF TooLarge(r.start_id, r.end_id)
        THEN /\ range_reply' = "too_large"
             /\ UNCHANGED <<start_msg_id, end_msg_id, range_state>>
        ELSE /\ start_msg_id' = r.start_id
             /\ end_msg_id' = r.end_id
             /\ range_state' = "main_menu"
             /\ range_reply' = "stored"

\* text_handler in the states that await a part of the range
text_handler_range(t) ==
    /\ Found
    /\ range_in' = t
    /\ IF range_state = "awaiting_range_start_link"
       THEN IF extract_message_id_from_link(strip(t)) # 0
            THEN /\ start_msg_id' = extract_message_id_from_link(strip(t))
                 /\ range_state' = "main_menu"
                 /\ range_reply' = "start_set"
                 /\ UNCHANGED end_msg_id
            ELSE /\ range_reply' = "invalid_link"
                 /\ UNCHANGED <<start_msg_id, end_msg_id, range_state>>
       ELSE IF range_state = "awaiting_range_end_link"
       THEN IF extract_message_id_from_link(strip(t)) # 0
            THEN /\ end_msg_id' = extract_message_id_from_link(strip(t))
                 /\ range_state' = "main_menu"
                 /\ range_reply' = "end_set"
                 /\ UNCHANGED start_msg_id
            ELSE /\ range_reply' = "invalid_link"
                 /\ UNCHANGED <<start_msg_id, end_msg_id, range_state>>
       ELSE IF range_state = "awaiting_message_range"
       THEN handle_message_range_input(strip(t))
       ELSE /\ range_reply' = "ignored"
            /\ UNCHANGED <<start_msg_id, end_msg_id, range_state>>
    /\ range_launch' = <<>>
    /\ UNCHANGED SpanFrame

\* callback start_copy with source and target set: copy_messages is called
\* with the range of the session when both its ends are set
start_copy_range ==
    /\ Found
    /\ range_in' = <<>>
    /\ IF start_msg_id # 0 /\ end_msg_id # 0
       THEN /\ range_launch' = <<start_msg_id, end_msg_id>>
            /\ range_reply' = "started"
       ELSE /\ range_reply' = "missing"
            /\ range_launch' = <<>>
    /\ UNCHANGED <<start_msg_id, end_msg_id, range_state, SpanFrame>>

NextRange ==
    \/ \E last \in {<<"raise">>, <<>>} \cup (RangeNumbers \ {<<"0">>}) :
          range_all(last)
    \/ \E st \in {"awaiting_range_start_link", "awaiting_range_end_link",
                  "awaiting_message_range"} : await_range(st)
    \/ \E t \in RangeTexts \cup RangeLinks : text_handler_range(t)
    \/ start_copy_range

SpecRange == InitRange /\ [][NextRange]_vars

\* ---- the /start command ----

\* config.OWNER_ID, an account among the users
OWNER_ID == "u1"

\* a session with its copy parameters unset or set; 0 stands for None
StartSessions ==
    {[state |-> st, source_channel |-> p[1], source_title |-> p[2],
      target_channel |-> p[1], target_title |-> p[2],
      start_msg_id |-> p[3], end_msg_id |-> p[3],
      session_string |-> ss, is_cancelled |-> c] :
        st \in {"main_menu", "awaiting_code"},
        p \in {<<"None", "None", 0>>, <<"chat", "title", 1>>},
        ss \in {"None", "string"},
        c \in BOOLEAN}

\* the record update_user_session starts from: the stored one, or {} , whose
\* missing keys read as None and False
Stored(u) ==
    IF u \in DOMAIN start_sessions THEN start_sessions[u]
    ELSE [state |-> "main_menu", source_channel |-> "None",
          source_title |-> "None", target_channel |-> "None",
          target_title |-> "None", start_msg_id |-> 0, end_msg_id |-> 0,
          session_string |-> "None", is_cancelled |-> FALSE]

\* a reset that also forgets the account
ResetCopy_all(s) ==
    [state |-> "main_menu", source_channel |-> "None",
     source_title |-> "None", target_channel |-> "None",
     target_title |-> "None", start_msg_id |-> 0, end_msg_id |-> 0,
     session_string |-> "None", is_cancelled |-> FALSE]

\* the dict start_command hands to update_user_session
ResetCopy(s) ==
    [s EXCEPT !.source_channel = "None", !.source_title = "None",
              !.target_channel = "None", !.target_title = "None",
              !.start_msg_id = 0, !.end_msg_id = 0, !.state = "main_menu"]

\* get_or_create_user: a user without a row gets one, add_user being called
\* without is_owner, which defaults to False
get_or_create_user(u) ==
    IF u \in DOMAIN start_db THEN start_db
    ELSE put(start_db, u, [is_owner |-> FALSE])

\* sessions, clients and rows as earlier work left them: a client exists
\* only for a user with a session string
InitStart ==
    /\ StartRest
    /\ \E S \in SUBSET Users : start_sessions \in [S -> StartSessions]
    /\ \E C \in SUBSET {u \in DOMAIN start_sessions :
                          start_sessions[u].session_string # "None"} :
          start_clients \in [C -> {"connected", "broken"}]
    /\ \E D \in SUBSET Users : start_db \in [D -> [is_owner : BOOLEAN]]
    /\ start_pc = [u \in Users |-> "idle"]

\* get_user_client past a missing or dropped client: create_user_client is
\* awaited when the session holds a string
StartRestore(u, sessions) ==
    IF u \in DOMAIN sessions /\ sessions[u].session_string # "None"
    THEN start_pc' = [start_pc EXCEPT ![u] = "start"]
    ELSE start_pc' = [start_pc EXCEPT ![u] = "idle"]

\* /start of user u: the row is made sure of, the copy parameters are reset,
\* and show_main_menu asks get_user_client for the client; when the user
\* store raises the handler replies with an error instead
start_command(u, stored) ==
    /\ start_pc[u] = "idle"
    /\ IF stored
       THEN /\ start_db' = get_or_create_user(u)
            /\ start_sessions' = put(start_sessions, u, ResetCopy(Stored(u)))
            /\ IF u \in DOMAIN start_clients
               THEN start_pc' = [start_pc EXCEPT ![u] = "get_me"]
               ELSE StartRestore(u, start_sessions)
       ELSE UNCHANGED <<start_db, start_sessions, start_pc>>
    /\ UNCHANGED <<start_clients, StartFrame>>

\* get_me of the kept client returned (a connected client only), or it
\* raised: the client is stopped and dropped and the session decides
start_get_me(u, ok) ==
    /\ start_pc[u] = "get_me"
    /\ ok => start_clients[u] = "connected"
    /\ IF ok
       THEN /\ start_pc' = [start_pc EXCEPT ![u] = "idle"]
            /\ UNCHANGED start_clients
       ELSE /\ start_clients' = del(start_clients, u)
            /\ StartRestore(u, start_sessions)
    /\ UNCHANGED <<start_sessions, start_db, StartFrame>>

\* create_user_client: the new client started and is kept, or it raised
start_client_started(u, ok) ==
    /\ start_pc[u] = "start"
    /\ start_pc' = [start_pc EXCEPT ![u] = "idle"]
    /\ start_clients' = IF ok THEN put(start_clients, u, "connected")
                        ELSE start_clients
    /\ UNCHANGED <<start_sessions, start_db, StartFrame>>

NextStart ==
    \/ \E u \in Users : \E stored \in BOOLEAN : start_command(u, stored)
    \/ \E u \in Users : \E ok \in BOOLEAN : start_get_me(u, ok)
    \/ \E u \in Users : \E ok \in BOOLEAN : start_client_started(u, ok)

SpecStart == InitStart /\ [][NextStart]_vars

\* ---- the admin inputs ----

\* the Telegram ID of each account
UserId == [u \in Users |-> IF u = "u1" THEN 1 ELSE 10]

\* the texts sent to the admin states: 0, 1, 10 and a word
AdminTexts == {<<"0">>, <<"1">>, <<"1", "0">>, <<"a">>}

AdminStates == {"main_menu", "awaiting_free_limit", "awaiting_broadcast",
                "awaiting_vip_promotion", "awaiting_vip_demotion"}

\* UserManager.is_owner: the flag of the row, False without a row
user_is_owner(u) == u \in DOMAIN admin_db /\ admin_db[u].is_owner

\* the test of the admin handlers on the sender, and one that lets all in
is_owner_any(u) == TRUE

authorized(u) == user_is_owner(u)

\* the rows of SELECT ... FROM users come in the order of the primary key;
\* the loop over them binds user_id to each in turn, so that after it
\* user_id is the last row's, or still the sender's when there is no row
LastRow(u) ==
    IF DOMAIN admin_db = {} THEN u
    ELSE CHOOSE w \in DOMAIN admin_db :
            \A v \in DOMAIN admin_db : UserId[v] <= UserId[w]

\* reset_message_count on every row that is neither VIP nor owner
ResetFree ==
    [u \in DOMAIN admin_db |->
        IF ~admin_db[u].is_vip /\ ~admin_db[u].is_owner
        THEN [admin_db[u] EXCEPT !.message_count = 0]
        ELSE admin_db[u]]

\* set_vip_status: UPDATE users SET is_vip = v WHERE user_id = id
set_vip_status(id, v) ==
    [u \in DOMAIN admin_db |->
        IF UserId[u] = id THEN [admin_db[u] EXCEPT !.is_vip = v]
        ELSE admin_db[u]]

\* rows, the limit and session states as earlier work left them
InitAdmin ==
    /\ AdminRest
    /\ \E D \in SUBSET Users :
          admin_db \in [D -> [is_vip : BOOLEAN, is_owner : BOOLEAN,
                              message_count : {0, 1}]]
    /\ admin_limit = default_free_limit
    /\ \E S \in SUBSET Users : admin_state \in [S -> AdminStates]
    /\ admin_sent = {}
    /\ admin_last = <<"none", "none">>

\* get_user_session at the head of text_handler creates a missing session
Opened(u) ==
    IF u \in DOMAIN admin_state THEN admin_state
    ELSE put(admin_state, u, "main_menu")

\* a button of the admin panel is pressed by u: handle_callback lets it
\* through for an owner only, and the handler sets the state that awaits
\* the input
admin_button(u, st) ==
    /\ IF user_is_owner(u)
       THEN /\ admin_state' = put(admin_state, u, st)
            /\ admin_last' = <<u, "asked">>
       ELSE /\ admin_last' = <<u, "unknown">>
            /\ UNCHANGED admin_state
    /\ admin_sent' = {}
    /\ UNCHANGED <<admin_db, admin_limit, AdminFrame>>

\* text_handler in state awaiting_free_limit
free_limit_input(u, t) ==
    IF ~authorized(u)
    THEN /\ admin_last' = <<u, "unauthorized">>
         /\ admin_state' = Opened(u)
         /\ admin_sent' = {}
         /\ UNCHANGED <<admin_db, admin_limit>>
    ELSE IF ~py_int(t).ok \/ py_int(t).val <= 0
    THEN /\ admin_last' = <<u, "invalid">>
         /\ admin_state' = Opened(u)
         /\ admin_sent' = {}
         /\ UNCHANGED <<admin_db, admin_limit>>
    ELSE /\ admin_limit' = py_int(t).val
         /\ admin_db' = ResetFree
         /\ admin_state' = put(Opened(u), LastRow(u), "main_menu")
         /\ admin_sent' = {}
         /\ admin_last' = <<u, "limit_set">>

\* text_handler in state awaiting_broadcast: the text is sent to every row,
\* S being the users the send did not fail for
broadcast_input(u, t, S) ==
    IF ~authorized(u)
    THEN /\ admin_last' = <<u, "unauthorized">>
         /\ admin_state' = Opened(u)
         /\ admin_sent' = {}
         /\ S = {}
         /\ UNCHANGED <<admin_db, admin_limit>>
    ELSE /\ S \subseteq DOMAIN admin_db
         /\ admin_sent' = S
         /\ admin_state' = put(Opened(u), u, "main_menu")
         /\ admin_last' = <<u, "broadcast">>
         /\ UNCHANGED <<admin_db, admin_limit>>

\* handle_vip_promotion_input and handle_vip_demotion_input: the text is
\* the ID of the user; S is the notice to that user, sent or failed
vip_input(u, t, v, S) ==
    IF ~authorized(u)
    THEN /\ admin_last' = <<u, "unauthorized">>
         /\ admin_state' = Opened(u)
         /\ admin_sent' = {}
         /\ S = {}
         /\ UNCHANGED <<admin_db, admin_limit>>
    ELSE IF ~py_int(t).ok
    THEN /\ admin_last' = <<u, "invalid">>
         /\ admin_state' = Opened(u)
         /\ admin_sent' = {}
         /\ S = {}
         /\ UNCHANGED <<admin_db, admin_limit>>
    ELSE /\ admin_db' = set_vip_status(py_int(t).val, v)
         /\ S \subseteq {w \in Users : UserId[w] = py_int(t).val}
         /\ admin_sent' = S
         /\ admin_state' = Opened(u)
         /\ admin_last' = <<u, IF v THEN "promoted" ELSE "demoted">>
         /\ UNCHANGED admin_limit

\* text_handler of user u with text t
admin_text(u, t, S) ==
    /\ LET st == Opened(u)[u]
       IN  IF st = "awaiting_free_limit"
           THEN S = {} /\ free_limit_input(u, strip(t))
           ELSE IF st = "awaiting_broadcast"
           THEN broadcast_input(u, strip(t), S)
           ELSE IF st = "awaiting_vip_promotion"
           THEN vip_input(u, strip(t), TRUE, S)
           ELSE IF st = "awaiting_vip_demotion"
           THEN vip_input(u, strip(t), FALSE, S)
           ELSE /\ S = {}
                /\ admin_last' = <<u, "ignored">>
                /\ admin_state' = Opened(u)
                /\ admin_sent' = {}
                /\ UNCHANGED <<admin_db, admin_limit>>
    /\ UNCHANGED AdminFrame

\* /reset <id> of user u: arg is the second word, <<>> when there is none
reset_user_limit(u, arg) ==
    /\ IF ~authorized(u)
       THEN /\ admin_last' = <<u, "unauthorized">>
            /\ UNCHANGED admin_db
       ELSE IF ~isdigit(arg)
       THEN /\ admin_last' = <<u, "usage">>
            /\ UNCHANGED admin_db
       ELSE IF \A w \in DOMAIN admin_db : UserId[w] # int(arg)
       THEN /\ admin_last' = <<u, "no_user">>
            /\ UNCHANGED admin_db
       ELSE /\ admin_db' =
                 [w \in DOMAIN admin_db |->
                     IF UserId[w] = int(arg)
                     THEN [admin_db[w] EXCEPT !.message_count = 0]
                     ELSE admin_db[w]]
            /\ admin_last' = <<u, "reset">>
    /\ admin_sent' = {}
    /\ UNCHANGED <<admin_limit, admin_state, AdminFrame>>

NextAdmin ==
    \/ \E u \in Users : \E st \in AdminStates \ {"main_menu"} :
          admin_button(u, st)
    \/ \E u \in Users : \E t \in AdminTexts : \E S \in SUBSET Users :
          admin_text(u, t, S)
    \/ \E u \in Users : \E arg \in AdminTexts \cup {<<>>} :
          reset_user_limit(u, arg)

SpecAdmin == InitAdmin /\ [][NextAdmin]_vars

\* ---- the sign-in flow ----

\* the accounts that sign in
SignUsers == {"u1"}

\* a phone number: ten characters, accepted
PhonePlain == <<"+", "1", "0", "1", "0", "1", "0", "1", "0", "1">>

\* a phone number: accepted once blanks and dashes are removed
PhoneSpaced == <<"+", "1", "0", " ", "1", "0", "-", "1", "0", "1", "0", "1">>

\* a phone number: no leading +
PhoneNoPlus == <<"1", "0", "1", "0", "1", "0", "1", "0", "1", "0">>

\* a phone number: a letter after the +
PhoneLetter == <<"+", "1", "0", "1", "0", "1", "0", "1", "0", "a">>

\* a phone number: nine characters
PhoneShort == <<"+", "1", "0", "1", "0", "1", "0", "1", "0">>

\* a phone number: seventeen characters
PhoneLong == <<"+", "1", "0", "1", "0", "1", "0", "1", "0", "1", "0", "1", "0", "1", "0", "1", "0">>

\* the lengths validate_phone_number admits
min_phone_len == 10

max_phone_len == 16

PhoneTexts == {PhonePlain, PhoneSpaced, PhoneNoPlus, PhoneLetter, PhoneShort, PhoneLong}

\* validate_phone_number(phone): the pair it returns
validate_phone_number(phone) ==
    LET cleaned == remove(remove(strip(phone), " "), "-")
    IN  IF ~startswith(cleaned, <<"+">>)
        THEN <<FALSE, "must start with +">>
        ELSE IF ~isdigit(SubSeq(cleaned, 2, Len(cleaned)))
        THEN <<FALSE, "only digits after +">>
        ELSE IF Len(cleaned) < min_phone_len \/ Len(cleaned) > max_phone_len
        THEN <<FALSE, "length must be between 10-16">>
        ELSE <<TRUE, cleaned>>

\* bool(x) of a tuple: False for the empty tuple only
truthy(tuple) == Len(tuple) > 0

\* a session as get_user_session creates it
NewSign == [state |-> "main_menu", session_string |-> "None",
            phone |-> <<>>, phone_code_hash |-> "None",
            temp_client |-> FALSE]

\* a session as update_user_session creates it for a user without one:
\* an empty dict, every key of which reads as None
EmptySign == [state |-> "None", session_string |-> "None",
              phone |-> <<>>, phone_code_hash |-> "None",
              temp_client |-> FALSE]

SignStates == {"main_menu", "awaiting_phone", "awaiting_code",
               "awaiting_password", "awaiting_session_string"}

\* json.dump raises on a session that holds a Client object; save_sessions
\* then puts the backup, that is the file as it was, back
save_sessions(sessions, file) ==
    IF \E u \in DOMAIN sessions : sessions[u].temp_client
    THEN file
    ELSE sessions

\* the session map after update_user_session(u, data), data given as the
\* record the update leads to
Updated(sessions, u, rec) == put(sessions, u, rec)

\* the session of u in map d, an empty dict when update_user_session is
\* the first to touch it
SignOf(d, u) == IF u \in DOMAIN d THEN d[u] ELSE EmptySign

\* the head of text_handler: get_user_session creates a missing session,
\* update_user_session clears the cancellation flag; both save
TextHead(u) ==
    IF u \in DOMAIN sign_sessions THEN sign_sessions
    ELSE put(sign_sessions, u, NewSign)

\* sessions as a start of the program finds them: loaded from the file
InitSign ==
    /\ SignRest
    /\ \E S \in SUBSET SignUsers :
          sign_sessions \in
              [S -> {[NewSign EXCEPT !.state = st, !.session_string = ss] :
                        st \in {"main_menu", "awaiting_phone",
                                "awaiting_session_string"},
                        ss \in {"None", "s0"}}]
    /\ sign_file = sign_sessions
    /\ sign_clients = {}
    /\ sign_last = <<"none", "none", <<>>, "none">>

\* handle_phone_session_creation and handle_string_session_creation
sign_button(u, st) ==
    /\ sign_sessions' =
           Updated(sign_sessions, u,
                   [SignOf(sign_sessions, u) EXCEPT !.state = st])
    /\ sign_file' = save_sessions(sign_sessions', sign_file)
    /\ sign_last' = <<u, "asked", <<>>, "none">>
    /\ UNCHANGED <<sign_clients, SignFrame>>

\* handle_session_deletion: clear_user_session, handled as one step
sign_delete(u) ==
    /\ sign_clients' = sign_clients \ {u}
    /\ IF u \in DOMAIN sign_sessions
       THEN /\ sign_sessions' = del(sign_sessions, u)
            /\ sign_file' = save_sessions(sign_sessions', sign_file)
       ELSE UNCHANGED <<sign_sessions, sign_file>>
    /\ sign_last' = <<u, "deleted", <<>>, "none">>
    /\ UNCHANGED SignFrame

\* start_phone_verification: sent tells whether connect and send_code
\* returned; the session then holds the phone as typed, the hash and the
\* temporary client
start_phone_verification(u, phone, sent) ==
    IF sent
    THEN /\ sign_sessions' =
                Updated(TextHead(u), u,
                        [TextHead(u)[u] EXCEPT !.phone = phone,
                                               !.phone_code_hash = "h",
                                               !.temp_client = TRUE,
                                               !.state = "awaiting_code"])
         /\ sign_file' =
                save_sessions(sign_sessions',
                              save_sessions(TextHead(u), sign_file))
         /\ sign_last' = <<u, "code_sent", phone, "ok">>
    ELSE /\ sign_sessions' = TextHead(u)
         /\ sign_file' = save_sessions(TextHead(u), sign_file)
         /\ sign_last' = <<u, "error", phone, "raised">>

\* text_handler in state awaiting_phone: handle_phone_input tests the pair
\* that validate_phone_number returns
handle_phone_input(u, phone, sent) ==
    /\ TextHead(u)[u].state = "awaiting_phone"
    /\ IF ~truthy(validate_phone_number(phone))
       THEN /\ sent = FALSE
            /\ sign_sessions' = TextHead(u)
            /\ sign_file' = save_sessions(TextHead(u), sign_file)
            /\ sign_last' = <<u, "invalid_format", <<>>, "none">>
       ELSE start_phone_verification(u, phone, sent)
    /\ UNCHANGED <<sign_clients, SignFrame>>

\* the session after a sign-in: the string and the state are written and
\* saved, then the keys of the flow are popped without a save
SignedIn(u) ==
    LET written == Updated(sign_sessions, u,
                       [sign_sessions[u] EXCEPT !.session_string = "s",
                                                !.state = "main_menu"])
    IN  /\ sign_file' =
               save_sessions(written, save_sessions(sign_sessions, sign_file))
        /\ sign_sessions' =
               [written EXCEPT ![u].temp_client = FALSE,
                               ![u].phone = <<>>,
                               ![u].phone_code_hash = "None"]
        /\ sign_clients' = sign_clients \cup {u}

\* the outcomes of sign_in that let verify_code write the session string
code_accepted_2fa(r) == r \in {"ok", "password_needed"}

code_accepted(r) == r = "ok"

CodeOutcomes == {"ok", "password_needed", "invalid", "expired", "error"}

\* text_handler in state awaiting_code: verify_code with the outcome r of
\* sign_in and export_session_string
verify_code(u, r) ==
    /\ u \in DOMAIN sign_sessions
    /\ sign_sessions[u].state = "awaiting_code"
    /\ IF ~sign_sessions[u].temp_client
       THEN /\ r = "error"
            /\ sign_last' = <<u, "session_expired", <<>>, "none">>
            /\ sign_file' = save_sessions(sign_sessions, sign_file)
            /\ UNCHANGED <<sign_sessions, sign_clients>>
       ELSE IF code_accepted(r)
       THEN /\ SignedIn(u)
            /\ sign_last' = <<u, "signed_in", <<>>, r>>
       ELSE IF r = "password_needed"
       THEN /\ sign_sessions' =
                   Updated(sign_sessions, u,
                       [sign_sessions[u] EXCEPT !.state = "awaiting_password"])
            /\ sign_file' = save_sessions(sign_sessions', sign_file)
            /\ sign_last' = <<u, "password_needed", <<>>, r>>
            /\ UNCHANGED sign_clients
       ELSE /\ sign_last' = <<u, r, <<>>, r>>
            /\ sign_file' = save_sessions(sign_sessions, sign_file)
            /\ UNCHANGED <<sign_sessions, sign_clients>>
    /\ UNCHANGED SignFrame

\* text_handler in state awaiting_password: verify_password, ok telling
\* whether check_password and export_session_string returned
verify_password(u, ok) ==
    /\ u \in DOMAIN sign_sessions
    /\ sign_sessions[u].state = "awaiting_password"
    /\ IF ~sign_sessions[u].temp_client
       THEN /\ ok = FALSE
            /\ sign_last' = <<u, "session_expired", <<>>, "none">>
            /\ sign_file' = save_sessions(sign_sessions, sign_file)
            /\ UNCHANGED <<sign_sessions, sign_clients>>
       ELSE IF ok
       THEN /\ SignedIn(u)
            /\ sign_last' = <<u, "signed_in", <<>>, "ok">>
       ELSE /\ sign_last' = <<u, "invalid_password", <<>>, "raised">>
            /\ sign_file' = save_sessions(sign_sessions, sign_file)
            /\ UNCHANGED <<sign_sessions, sign_clients>>
    /\ UNCHANGED SignFrame

\* text_handler in state awaiting_session_string: create_user_client drops
\* the client kept for u, then start and get_me return (ok) or raise
handle_session_string_input(u, ok) ==
    /\ u \in DOMAIN sign_sessions
    /\ sign_sessions[u].state = "awaiting_session_string"
    /\ IF ok
       THEN /\ sign_clients' = sign_clients \cup {u}
            /\ sign_sessions' =
                   Updated(sign_sessions, u,
                       [sign_sessions[u] EXCEPT !.session_string = "s",
                                                !.state = "main_menu"])
            /\ sign_file' =
                   save_sessions(sign_sessions',
                                 save_sessions(sign_sessions, sign_file))
            /\ sign_last' = <<u, "string_ok", <<>>, "ok">>
       ELSE /\ sign_clients' = sign_clients \ {u}
            /\ sign_file' = save_sessions(sign_sessions, sign_file)
            /\ sign_last' = <<u, "string_failed", <<>>, "raised">>
            /\ UNCHANGED sign_sessions
    /\ UNCHANGED SignFrame

\* text_handler in a state that awaits nothing of the flow
sign_other_text(u) ==
    /\ TextHead(u)[u].state \in {"main_menu", "None"}
    /\ sign_sessions' = TextHead(u)
    /\ sign_file' = save_sessions(TextHead(u), sign_file)
    /\ sign_last' = <<u, "ignored", <<>>, "none">>
    /\ UNCHANGED <<sign_clients, SignFrame>>

\* the program is started again: load_sessions reads the file, no client
\* is kept
sign_restart ==
    /\ sign_sessions' = sign_file
    /\ sign_clients' = {}
    /\ sign_last' = <<"none", "restart", <<>>, "none">>
    /\ UNCHANGED <<sign_file, SignFrame>>

NextSign ==
    \/ \E u \in SignUsers :
          \E st \in {"awaiting_phone", "awaiting_session_string"} :
              sign_button(u, st)
    \/ \E u \in SignUsers : sign_delete(u)
    \/ \E u \in SignUsers : \E phone \in PhoneTexts : \E sent \in BOOLEAN :
          handle_phone_input(u, phone, sent)
    \/ \E u \in SignUsers : \E r \in CodeOutcomes : verify_code(u, r)
    \/ \E u \in SignUsers : \E ok \in BOOLEAN : verify_password(u, ok)
    \/ \E u \in SignUsers : \E ok \in BOOLEAN :
          handle_session_string_input(u, ok)
    \/ \E u \in SignUsers : sign_other_text(u)
    \/ sign_restart

SpecSign == InitSign /\ [][NextSign]_vars

\* ---- properties ----

Privileged == is_owner \/ is_vip

StrictlyIncreasing(f) == \A i \in 1..(Len(f) - 1) : f[i] < f[i + 1]

\* C1: a copy_messages run that completes has counted every ID of its range:
\* copied + failed = end_id - start_id + 1
C1_CompletedCountsAll ==
    (loop = "channel" /\ pc = "done" /\ outcome = "completed")
        => copied + failed = end_id - start_id + 1

\* C2: in both loops copied + failed never exceeds the number of IDs visited
\* so far, nor total
C2_CountsBounded ==
    loop # "idle" => (copied + failed <= Len(fetched) /\ copied + failed <= total)

\* C3: once /stop was handled during a copy_messages run, the run starts no
\* further transfer, whatever the user sends afterwards
C3_NoTransferAfterStop ==
    [][(loop = "channel" /\ stop_in_run /\ stop_in_run')
          => fetched' = fetched]_vars

\* C4: a copy_messages run is cancelled only by a /stop handled after it was
\* started, never by a flag left over from before
C4_FreshFlag ==
    (loop = "channel" /\ outcome = "cancelled") => stop_in_run

\* C5: a copy_messages run cancelled at the check of message k+1 returns
\* success = True with copied + failed <= k - start_id + 1
C5_CancelCounts ==
    (loop = "channel" /\ outcome = "cancelled")
        => (success /\ copied + failed <= msg_id - start_id)

\* C6: copy_messages starts the transfer of a message for a free user only
\* while the persisted message_count is below message_limit
C6_QuotaOnPersistedCount ==
    [][(loop = "channel" /\ is_free_user /\ Len(fetched') > Len(fetched))
          => message_count < default_free_limit]_vars

\* a free user whose count had reached the limit when the run was started
AtLimitAtStart == loop # "idle" /\ ~Privileged /\ count0 >= default_free_limit

C8_PersonalQuotaPerMessage ==
    (loop = "personal" /\ ~Privileged /\ delivered > 0)
        => count0 + delivered <= default_free_limit

\* C9: when a run has ended, a free user's persisted count has grown by the
\* number of messages delivered in the run, an owner's or VIP's not at all
C9_CountMatchesDelivered ==
    pc = "done"
        => message_count = count0 + (IF Privileged THEN 0 ELSE delivered)

\* C10: within a run the IDs are fetched in strictly increasing order, each
\* ID of the range at most once, and a fetch is issued only at the head of
\* an iteration, when the transfer of the previous ID is over
C10_OrderedFetch ==
    /\ [](/\ StrictlyIncreasing(fetched)
          /\ \A i \in 1..Len(fetched) : fetched[i] \in start_id..end_id
          /\ pc \notin {"idle", "client", "top", "final", "cancel_edit",
                        "quota_edit", "done"}
                => (fetched # <<>> /\ fetched[Len(fetched)] = msg_id))
    /\ [][Len(fetched') > Len(fetched)
             => (pc = "top" /\ fetched' = Append(fetched, msg_id))]_vars

C10_Witness ==
    Len(fetched) >= 2 /\ failed >= 1 /\ copied >= 1

\* C11: a copy_messages run that entered the loop ends as cancelled,
\* quota-exceeded or completed and returns success = True, whichever calls
\* failed on the way
C11_TerminalOutcomes ==
    (loop = "channel" /\ pc = "done" /\ outcome # "noclient")
        => (success /\ outcome \in {"cancelled", "quota", "completed"})

\* C12: a copy_messages call that finds no client returns success = False
\* having fetched and sent nothing, with the counters and the persisted
\* count as they were, and its return step creates neither temp_downloads
\* nor a file in it
C12_NoClientNoEffect ==
    /\ []((loop = "channel" /\ outcome = "noclient")
            => /\ ~success
               /\ fetched = <<>>
               /\ delivered = 0
               /\ copied = 0
               /\ failed = 0
               /\ message_count = count0)
    /\ [][(loop = "channel" /\ pc = "client" /\ outcome' = "noclient")
            => /\ temp_dir' = temp_dir
               /\ temp_files' = temp_files
               /\ message_count' = message_count]_vars

\* a call without a client has returned and temp_downloads does not exist
C12_Witness ==
    /\ loop = "channel"
    /\ pc = "done"
    /\ outcome = "noclient"
    /\ ~temp_dir

\* C13: in copy_messages a step that counts a failure leaves copied as it
\* was, counts exactly one failure and goes on to the next ID
C13_FailureCountsOnce ==
    [][(loop = "channel" /\ failed' > failed)
          => /\ failed' = failed + 1
             /\ copied' = copied
             /\ msg_id' = msg_id + 1
             /\ pc' = "top"]_vars

\* C14: in both loops a fetched message that leaves the loop body without a
\* download or a send is counted as exactly one failure with nothing
\* delivered, and a text message that was sent is counted as copied
C14_NoMediaCounted ==
    [][/\ (loop \in {"channel", "personal"} /\ pc = "fetch" /\ pc' = "top")
             => (failed' = failed + 1 /\ delivered' = delivered)
       /\ (loop \in {"channel", "personal"} /\ pc = "send_text"
              /\ delivered' = delivered + 1)
             => copied' = copied + 1]_vars

\* C15: in both loops the step that ends the send of a media message staged
\* on disk, by a return or by a raise, leaves no scratch file of that message
C15_ScratchRemovedAfterSend ==
    [][(pc \in {"send_media", "send_large"} /\ pc' # pc)
          => temp_file(loop, msg_id) \notin temp_files']_vars

\* C16: when a run has ended (completed, cancelled, quota-exceeded or by an
\* error) temp_downloads holds no scratch file of a message of its range
C16_NoScratchAtEnd ==
    (pc = "done" /\ outcome \in {"completed", "cancelled", "quota", "error"})
        => \A m \in start_id..end_id : temp_file(loop, m) \notin temp_files

IsNumeric(str) ==
    isdigit(IF str # <<>> /\ Head(str) = "-" THEN Tail(str) ELSE str)

Positions(str, c) == {i \in 1..Len(str) : str[i] = c}

\* the part of a link after its last "/": <a> or <a>-<b>, digits only
RangePart(rest) ==
    LET d == Positions(rest, "-")
        k == CHOOSE x \in d : TRUE
    IN  IF d = {}
        THEN [ok |-> isdigit(rest), a |-> rest, b |-> rest]
        ELSE [ok |-> /\ Cardinality(d) = 1
                     /\ isdigit(SubSeq(rest, 1, k - 1))
                     /\ isdigit(SubSeq(rest, k + 1, Len(rest))),
              a |-> SubSeq(rest, 1, k - 1),
              b |-> SubSeq(rest, k + 1, Len(rest))]

\* a link read by cutting it at its "/": the form https://t.me/c/<iid>/<r>
\* or https://t.me/<name>/<r>, the chat reference and the range part
LinkForm(str) ==
    LET body == Tail(str)
        sl == Positions(body, "/")
        j == CHOOSE x \in sl : \A y \in sl : y <= x
        ref == IF Cardinality(sl) = 2 THEN SubSeq(body, 3, j - 1)
               ELSE SubSeq(body, 1, j - 1)
        r == RangePart(SubSeq(body, j + 1, Len(body)))
    IN  IF Cardinality(sl) = 2 /\ SubSeq(body, 1, 2) = <<"c", "/">>
           /\ isdigit(ref) /\ r.ok
        THEN [form |-> "private", ref |-> ref, a |-> r.a, b |-> r.b]
        ELSE IF Cardinality(sl) = 1 /\ ref # <<>>
                /\ (\A i \in 1..Len(ref) : ref[i] \in WordChars) /\ r.ok
        THEN [form |-> "public", ref |-> ref, a |-> r.a, b |-> r.b]
        ELSE [form |-> "other", ref |-> <<>>, a |-> <<>>, b |-> <<>>]

\* what the claim expects of a link: the chat reference, the first and the
\* last message ID
Expected(kind, ref, a, b) ==
    [kind |-> kind,
     channel |-> IF kind = "private" THEN 0 - int(<<"1", "0", "0">> \o ref)
                 ELSE 0,
     username |-> IF kind = "public" THEN ref ELSE <<>>,
     start_id |-> int(a),
     end_id |-> int(b)]

\* C19: a private link gives chat -100<internal_id> and its message ID, a
\* public link gives the username and its message ID, in source-channel
\* setup and in personal copy; in personal copy a suffix -<b> gives end b
\* and without it end equals start
C19_LinkParsed ==
    (parsed # NotParsed /\ LinkForm(text).form # "other")
        => LET f == LinkForm(text)
           IN  parsed[2] = Expected(f.form, f.ref, f.a,
                               IF parsed[1] = "personal" THEN f.b ELSE f.a)

\* personal copy has parsed the private range link c/1/0-1
C19_Witness ==
    /\ text = <<"https://t.me/", "c", "/", "1", "/", "0", "-", "1">>
    /\ parsed = <<"personal",
                  [kind |-> "private", channel |-> 0 - 1001,
                   username |-> <<>>, start_id |-> 0, end_id |-> 1]>>

\* C20: no exception leaves join_channel_by_invite or
\* validate_channel_access; a failure is returned as (False, '', reason)
\* with a reason, and success = True comes with a chat id
C20_NeverRaises ==
    /\ rpc # "raised"
    /\ rpc = "returned"
         => IF ret.success THEN ret.chat_id # ""
            ELSE ret.chat_id = "" /\ ret.reason # ""

\* join_channel_by_invite, called directly, has turned an unexpected
\* exception of join_chat into a failure with a reason
C20_Witness ==
    /\ fn = "join"
    /\ rpc = "returned"
    /\ ret = [success |-> FALSE, chat_id |-> "",
              reason |-> "Failed to join channel"]

\* C21 as stated: a setup handler that ends without any call having returned
\* the chat has told the failure and left source_channel and target_channel
\* as they were, and start_copy never launches with a channel that was
\* stored without being resolved.
C21_Original ==
    /\ (setup_pc = "idle" /\ handler # "none" /\ ~resolved)
         => /\ replied \in {"failed", "no_session"}
            /\ <<source_channel, target_channel>> = before
    /\ launched # "unverified"

\* C21: a setup handler that ends without any call having returned the chat
\* has told the failure and left both channels as they were, except source
\* setup with a message link of a private channel: with a client it stores
\* the channel ID read from the link and ends with the warning (or the
\* general error reply), so only a source of that kind is ever launched
\* unresolved; the target is never stored unresolved.
C21_FailureKeepsSession ==
    /\ (setup_pc = "idle" /\ handler # "none" /\ ~resolved)
         => IF /\ handler = "source"
               /\ link_kind(strip(text)) = "private"
               /\ replied # "no_session"
            THEN /\ replied \in {"warned", "error"}
                 /\ source_channel = "link_id"
                 /\ unverified
                 /\ target_channel = before[2]
            ELSE /\ replied \in {"failed", "no_session"}
                 /\ <<source_channel, target_channel>> = before
    /\ unverified => source_channel = "link_id"
    /\ launched = "unverified" => range_set
    /\ target_channel \in {"None", "old", "chat"}

\* target setup failed on an invitation link and both channels kept their
\* earlier values, after a launch with them
C21_Witness ==
    /\ setup_pc = "idle"
    /\ handler = "target"
    /\ text = <<"https://t.me/", "+", "a">>
    /\ ~resolved
    /\ replied = "failed"
    /\ before = <<"old", "old">>
    /\ source_channel = "old"
    /\ target_channel = "old"
    /\ launched = "verified"

\* C22: for an invitation link the join is attempted first; the direct
\* lookup comes only after the join reported that the caller is already a
\* member, the dialog scan only after that lookup failed, and the scan
\* returns a dialog only when its invite link equals the given one; an
\* expired or invalid hash is returned as a failure after the join alone.
C22_InviteOrder ==
    /\ calls # <<>> => calls[1][1] = "join_chat"
    /\ \A i \in 1..Len(calls) :
         /\ calls[i][1] = "join_chat" => i = 1
         /\ calls[i][1] = "get_chat"
              => i = 2 /\ calls[1][2] = <<"UserAlreadyParticipant">>
         /\ calls[i][1] \in {"get_dialogs", "get_chat_invite_link"}
              => i >= 3 /\ calls[2] = <<"get_chat", <<"raise">>>>
    /\ (calls # <<>> /\ calls[1][2] \in {<<"InviteHashExpired">>,
                                        <<"InviteHashInvalid">>})
         => /\ Len(calls) = 1
            /\ rpc = "returned"
            /\ ~ret.success
            /\ ret.reason \in {"Invitation link has expired",
                               "Invalid invitation link"}
    /\ (/\ rpc = "returned"
        /\ ret.success
        /\ calls # <<>>
        /\ calls[Len(calls)][1] = "get_chat_invite_link")
         => calls[Len(calls)][2] = cleaned_channel

\* the denominator of the bar a callback rendered
Denominator == IF rendered = "download" THEN total_size ELSE download_size

\* the cells of the rendered bar that are filled
Filled == Cardinality({i \in 1..Len(bar) : bar[i] = "full"})

Window ==
    IF transfer = "upload" THEN upload_speed_samples
    ELSE download_speed_samples

\* the sum of a window, position by position
SumTo(w, n) == LET S[k \in 0..n] == IF k = 0 THEN 0 ELSE S[k - 1] + w[k]
               IN  S[n]

\* C24, in every state: a window holds at most 10 samples and the reported
\* average is the arithmetic mean of the samples in it
C24_WindowState ==
    /\ Len(download_speed_samples) <= 10
    /\ Len(upload_speed_samples) <= 10
    /\ Len(Window) = IF taken > 10 THEN 10 ELSE taken
    /\ Window # <<>> => avg_speed = <<SumTo(Window, Len(Window)), Len(Window)>>

\* C24, in every step: a sample goes to the end of the window and the
\* order of the others is kept; the oldest is dropped exactly when the
\* window already held 10
C24_WindowStep ==
    /\ Len(Window') \in {Len(Window), Len(Window) + 1}
    /\ (Len(Window') = Len(Window) + 1)
         => /\ Len(Window) < 10
            /\ \A i \in 1..Len(Window) : Window'[i] = Window[i]
    /\ (Len(Window') = Len(Window) /\ Window' # Window)
         => /\ Len(Window) = 10
            /\ \A i \in 1..9 : Window'[i] = Window[i + 1]

\* C24: the speed window of a transfer never holds more than 10 samples;
\* an 11th sample discards the oldest and keeps the order of the rest, and
\* the reported average is the mean of the samples in the window.
C24_SpeedWindow == []C24_WindowState /\ [][C24_WindowStep]_vars

\* an 11th sample, 10, has arrived in a download whose first three were
\* 10, 20, 30: the first is gone and the average of the ten left is 13
C24_Witness ==
    /\ transfer = "download"
    /\ taken = 11
    /\ download_speed_samples = <<20, 30, 10, 10, 10, 10, 10, 10, 10, 10>>
    /\ avg_speed = <<130, 10>>

\* C25: any two consecutive edits of the status message are at least 1
\* second apart, for the download and upload callbacks of copy_messages and
\* for the per-message status edits of the personal-copy loop.
C25_EditsApart ==
    edit_gap # NoGap => edit_gap >= min_edit_interval * TicksPerSecond

\* C26: while a run holds a staged file between its download and its
\* upload, no task of another user deletes that file or the scratch
\* directory.
C26_NoForeignCleanup ==
    \A r \in Runs : \A o \in Runs :
        (runs[r].user # runs[o].user /\ runs[r].pc = "upload")
          => runs[r].file \in files /\ dir_exists

\* C28: at most one copy run, copy_messages or personal copy, is active for
\* a user at any time.
C28_OneRunPerUser ==
    \A r \in Runs : \A o \in Runs :
        (r # o /\ runs[r].pc # "idle" /\ runs[o].pc # "idle")
          => runs[r].user # runs[o].user

\* C30: two runs that are active at the same time never hold the same
\* scratch path.
C30_DistinctScratchPaths ==
    \A r \in Runs : \A o \in Runs :
        (r # o /\ runs[r].file # NoFile /\ runs[o].file # NoFile)
          => runs[r].file # runs[o].file

\* a step of clear_user_session(u)
ClearStep(u) == clear_pc'[u] # clear_pc[u] /\ clear_pc'[u] # "idle"

\* C27, the user: once clear_user_session(u) has completed and until u signs
\* in again, u has no entry in active_clients and get_user_session(u) yields
\* the default record, so that get_user_client(u) finds neither a client
\* nor a session string and returns None
C27_Cleared ==
    \A u \in Users :
        clear_pc[u] = "done"
          => /\ u \notin DOMAIN active_clients
             /\ get_user_session(u) = DefaultSession

\* C27, the others: no step of clear_user_session(u) changes the session or
\* the client of another user
C27_OthersKept ==
    \A u \in Users : ClearStep(u) =>
        \A v \in Users \ {u} :
            /\ (v \in DOMAIN user_sessions) = (v \in DOMAIN user_sessions')
            /\ (v \in DOMAIN active_clients) = (v \in DOMAIN active_clients')
            /\ v \in DOMAIN user_sessions => user_sessions'[v] = user_sessions[v]
            /\ v \in DOMAIN active_clients
                 => active_clients'[v] = active_clients[v]

\* C27: after clear_user_session(u) completes u has no client and a fresh
\* default session, so get_user_client(u) returns None until a new session
\* is created; the sessions and clients of the other users are unchanged.
C27_ClearedSession == []C27_Cleared /\ [][C27_OthersKept]_vars


\* the loop iterations a run of copy_messages has begun (a run waiting at the
\* head of the loop with an ID still in the range is counted as in it)
Iterations ==
    IF msg_id > end_id THEN msg_id - start_id ELSE msg_id - start_id + 1

\* copy_messages is past its client lookup and has set up the loop
InLoop == loop = "channel" /\ pc # "client" /\ outcome # "noclient"

\* C29 (safety part): a run begins at most end_id - start_id + 1 iterations,
\* each fetching one message, and none at all when start_id > end_id
C29_Bounded ==
    InLoop =>
        /\ Iterations >= Len(fetched)
        /\ IF start_id > end_id
           THEN Iterations = 0 /\ pc \in {"top", "final", "done"}
           ELSE Iterations <= end_id - start_id + 1

\* C29: when every awaited call returns or raises, every invocation of
\* copy_messages returns, after at most end_id - start_id + 1 loop
\* iterations, and after none when start_id > end_id
C29_Terminates ==
    /\ []C29_Bounded
    /\ (loop = "channel" /\ pc = "client") ~> (loop = "channel" /\ pc = "done")

\* a run over a range of several messages has returned, completed, after
\* one iteration for each ID of the range
C29_Witness ==
    /\ loop = "channel"
    /\ pc = "done"
    /\ outcome = "completed"
    /\ start_id < end_id
    /\ Len(fetched) = end_id - start_id + 1
    /\ Iterations = end_id - start_id + 1


\* the copy_messages tasks started so far
Started == {r \in Runs : quota_runs[r].pc # "idle"}

\* C31: with one or two copy_messages tasks of one free user interleaved,
\* the persisted count never exceeds message_limit + n, and once the tasks
\* are over the count is the initial count plus the sends that succeeded
C31_QuotaUnderRuns ==
    /\ db_count <= default_free_limit + Cardinality(Started)
    /\ (Started # {} /\ \A r \in Started : quota_runs[r].pc = "done")
          => db_count = db_count0 + transfers


\* C32: whenever start_copy launches copy_messages from the session, both
\* ends of the range are positive and start_msg_id <= end_msg_id
C32_LaunchedRangeOrdered ==
    range_launch # <<>>
        => /\ range_launch[1] > 0
           /\ range_launch[2] > 0
           /\ range_launch[1] <= range_launch[2]


\* the last handler was handle_message_range_input
RangeTyped ==
    range_prev[3] = "awaiting_message_range"
        /\ range_reply \in {"stored", "invalid", "rejected", "too_large"}

\* C40: handle_message_range_input stores a typed range only if it spans
\* 1000 messages or fewer with 0 < start <= end, stores b-a as it stores a-b,
\* and leaves start, end and state alone when it rejects the input
C40_TypedRange ==
    RangeTyped =>
        /\ range_reply = "stored" =>
              /\ 0 < start_msg_id
              /\ start_msg_id <= end_msg_id
              /\ end_msg_id - start_msg_id + 1 <= 1000
              /\ range_state = "main_menu"
              /\ \A a \in RangeNumbers, b \in RangeNumbers :
                    range_in \in {a \o <<"-">> \o b, b \o <<"-">> \o a}
                        => {start_msg_id, end_msg_id} = {int(a), int(b)}
        /\ range_reply # "stored" =>
              <<start_msg_id, end_msg_id, range_state>> = range_prev


\* the session of user u, unset keys read as None
SessionOf(d, u) ==
    IF u \in DOMAIN d THEN d[u]
    ELSE [state |-> "main_menu", source_channel |-> "None",
          source_title |-> "None", target_channel |-> "None",
          target_title |-> "None", start_msg_id |-> 0, end_msg_id |-> 0,
          session_string |-> "None", is_cancelled |-> FALSE]

\* the copy parameters of the session are unset and its state is main_menu
IsReset(s) ==
    /\ s.source_channel = "None" /\ s.source_title = "None"
    /\ s.target_channel = "None" /\ s.target_title = "None"
    /\ s.start_msg_id = 0 /\ s.end_msg_id = 0
    /\ s.state = "main_menu"

\* a step of the /start handler of user u
StartStep(u) ==
    \E b \in BOOLEAN :
        start_command(u, b) \/ start_get_me(u, b) \/ start_client_started(u, b)

\* what a step of the /start handler of u leaves alone in the sessions: the
\* account and the flag of u, and all of every other user's session
SessionsKept(u) ==
    /\ SessionOf(start_sessions', u).session_string
          = SessionOf(start_sessions, u).session_string
    /\ SessionOf(start_sessions', u).is_cancelled
          = SessionOf(start_sessions, u).is_cancelled
    /\ \A v \in Users \ {u} :
          /\ (v \in DOMAIN start_sessions') = (v \in DOMAIN start_sessions)
          /\ v \in DOMAIN start_sessions
                => start_sessions'[v] = start_sessions[v]

\* the step leaves the client of every user but u alone
OtherClientsKept(u) ==
    \A v \in Users \ {u} :
        /\ (v \in DOMAIN start_clients') = (v \in DOMAIN start_clients)
        /\ v \in DOMAIN start_clients => start_clients'[v] = start_clients[v]

C35_OwnerRecorded ==
    [][start_command(OWNER_ID, TRUE)
          => /\ OWNER_ID \in DOMAIN start_db'
             /\ start_db'[OWNER_ID].is_owner]_vars

\* ---- SpecAdmin: who may change VIP flags, the limit and the counts ----

\* the sender of the input the step handled
Sender == admin_last'[1]

\* some row's is_vip flag differs after the step
VipChanged ==
    \E u \in DOMAIN admin_db : admin_db'[u].is_vip # admin_db[u].is_vip

\* some row's message_count went back after the step
CountReset ==
    \E u \in DOMAIN admin_db :
        admin_db'[u].message_count < admin_db[u].message_count

AwaitingAdmin(u) ==
    /\ u \in DOMAIN admin_state
    /\ admin_state[u] \in AdminStates \ {"main_menu"}

\* C34: an is_vip flag, the free limit and a reset of message counts change
\* only in a step that handles an input of a user whose is_owner is true at
\* that moment, and an input of a non-owner in one of the awaiting states of
\* the admin panel changes no row, leaves the limit and sends no broadcast.
C34_OwnerOnly ==
    [][/\ (VipChanged \/ admin_limit' # admin_limit \/ CountReset)
            => (Sender \in Users /\ user_is_owner(Sender))
       /\ \A u \in Users :
            (Sender = u /\ ~user_is_owner(u) /\ AwaitingAdmin(u))
                => /\ admin_db' = admin_db
                   /\ admin_limit' = admin_limit
                   /\ admin_sent' = {}]_vars

\* a non-owner's input in state awaiting_vip_promotion was turned away
C34_Witness ==
    /\ admin_last[1] \in Users
    /\ admin_last[2] = "unauthorized"
    /\ ~user_is_owner(admin_last[1])
    /\ admin_last[1] \in DOMAIN admin_state
    /\ admin_state[admin_last[1]] = "awaiting_vip_promotion"

\* C36: when the owner in state awaiting_free_limit sends a positive limit,
\* the owner's session state becomes main_menu, no other session is created
\* or modified, every free row's count becomes 0 and the counts of VIP and
\* owner rows stay.
C36_FreeLimitSet ==
    [][\A u \in Users : \A t \in AdminTexts :
          (/\ admin_text(u, t, {})
           /\ u \in DOMAIN admin_state
           /\ admin_state[u] = "awaiting_free_limit"
           /\ user_is_owner(u)
           /\ py_int(strip(t)).ok
           /\ py_int(strip(t)).val > 0)
          => /\ admin_state'[u] = "main_menu"
             /\ \A w \in Users \ {u} :
                   /\ w \in DOMAIN admin_state' <=> w \in DOMAIN admin_state
                   /\ w \in DOMAIN admin_state
                        => admin_state'[w] = admin_state[w]
             /\ \A w \in DOMAIN admin_db :
                   admin_db'[w].message_count =
                       IF ~admin_db[w].is_vip /\ ~admin_db[w].is_owner
                       THEN 0 ELSE admin_db[w].message_count]_vars

\* the part of C36 about the counts alone
C36_CountsOnly ==
    [][\A u \in Users : \A t \in AdminTexts :
          (/\ admin_text(u, t, {})
           /\ admin_last'[2] = "limit_set")
          => \A w \in DOMAIN admin_db :
                   admin_db'[w].message_count =
                       IF ~admin_db[w].is_vip /\ ~admin_db[w].is_owner
                       THEN 0 ELSE admin_db[w].message_count]_vars

\* ---- SpecSign: phone numbers, session strings and the session file ----

\* C37: a phone number that validate_phone_number rejects gets the
\* invalid-format reply from handle_phone_input: send_code is not called and
\* phone, phone_code_hash and state of the session stay as they were.
C37_RejectedPhone ==
    [][\A u \in SignUsers : \A phone \in PhoneTexts : \A sent \in BOOLEAN :
          (/\ handle_phone_input(u, phone, sent)
           /\ ~validate_phone_number(phone)[1])
          => /\ sign_last'[2] = "invalid_format"
             /\ sign_last'[3] = <<>>
             /\ sign_sessions'[u].phone = TextHead(u)[u].phone
             /\ sign_sessions'[u].phone_code_hash =
                    TextHead(u)[u].phone_code_hash
             /\ sign_sessions'[u].state = TextHead(u)[u].state]_vars

\* the session string of u in map d, None without a session
StringOf(d, u) == SignOf(d, u).session_string

\* the replies of a failed code, password or string attempt
FailedReplies == {"invalid", "expired", "error", "password_needed",
                  "session_expired", "invalid_password", "string_failed"}

\* C38: a handler writes a session string to the session of u only in a
\* step in which sign_in (check_password when two-factor authentication is
\* required) returned on the temporary client of u, or in which the client
\* built from the supplied string started; a failed code, password or
\* string attempt leaves the session string and does not set the state to
\* main_menu.
C38_StringAfterSignIn ==
    [][\A u \in SignUsers :
          /\ (/\ sign_last'[2] # "restart"
              /\ StringOf(sign_sessions', u) # "None"
              /\ StringOf(sign_sessions', u) # StringOf(sign_sessions, u))
             => /\ sign_last'[1] = u
                /\ sign_last'[4] = "ok"
                /\ \/ /\ sign_sessions[u].temp_client
                      /\ sign_sessions[u].state \in
                             {"awaiting_code", "awaiting_password"}
                   \/ sign_sessions[u].state = "awaiting_session_string"
          /\ (sign_last'[1] = u /\ sign_last'[2] \in FailedReplies)
             => /\ StringOf(sign_sessions', u) = StringOf(sign_sessions, u)
                /\ sign_sessions'[u].state # "main_menu"]_vars

\* the sign-in went through and the string was written
C38_Witness ==
    /\ sign_last[1] \in SignUsers
    /\ sign_last[2] = "signed_in"
    /\ sign_last[4] = "ok"
    /\ sign_sessions[sign_last[1]].session_string = "s"
    /\ sign_sessions[sign_last[1]].state = "main_menu"
    /\ sign_last[1] \in sign_clients

\* what json.dump writes of a session map: every key but the client object
Persisted(sessions) ==
    [u \in DOMAIN sessions |-> [sessions[u] EXCEPT !.temp_client = FALSE]]

\* C39: the session file holds the in-memory session map after every
\* update_user_session, creation by get_user_session and
\* clear_user_session, during and after the phone-verification flow too.
C39_FileIsMap == sign_file = Persisted(sign_sessions)

\* side check: the file holds the map while no session holds a client
C39_WithoutTemp ==
    (\A u \in DOMAIN sign_sessions : ~sign_sessions[u].temp_client)
        => \/ sign_file = sign_sessions
           \/ sign_last[2] \in {"signed_in"}
====
